---------------------------- MODULE Spec2Model ----------------------------
(***************************************************************************)
(* A model of the Flexutils TensorFlow toolkit networks:                   *)
(*   - the multi-head (ReconSIREN) AutoEncoder of networks/reconsiren.py,  *)
(*   - the heterogeneity (HetSIREN) AutoEncoder of networks/het_siren.py.  *)
(* Tensors are modelled as functions over 1..B (batch) or 1..N (voxels),   *)
(* floating point numbers as tagged rationals (num / nan / inf).           *)
(***************************************************************************)
EXTENDS Integers, Sequences, FiniteSets, TLC

VARIABLES
    (* multi-head AutoEncoder.predict_step *)
    p_pc,            \* "idle" | "loop" | "done"
    p_B,             \* batch_size_scope of the running predict step
    p_idr,           \* number of candidates already processed by the loop
    p_loss,          \* the loss vectors self.cost returned, one per candidate
    prev_loss_rec,   \* running minimum, one entry per batch element
    keep_r,          \* kept rotation, per batch element (0: tf.zeros)
    keep_shifts,     \* kept shift, per batch element (0: tf.zeros)
    keep_imgs,       \* kept image, per batch element (0: tf.zeros)
    (* multi-head AutoEncoder: configuration and decode_images_with_loss *)
    only_pos,        \* self.only_pos
    only_pose,       \* self.only_pose
    noSym,           \* self.generator.noSym
    d_pc,            \* "idle" | "loop" | "done"
    d_B,             \* B = tf.shape(images)[0]
    d_idr,           \* number of candidates already processed by the loop
    d_delta,         \* delta, the decoder's output per voxel (0.0 in pose-only mode)
    d_cand,          \* symmetry-averaged loss of each processed candidate, before the minimum
    d_prev,          \* prev_loss_rec, per batch element
    d_loss_rec,      \* loss_rec after the loop: the reconstruction term of the returned loss
    d_neg_loss,      \* neg_loss_het
    (* multi-head AutoEncoder: weights, optimizers and the running train/test step *)
    m_w_enc,         \* version of the encoder weights (common and head encoders)
    m_w_dec,         \* version of the decoder weights (decoder_delta)
    m_e_opt,         \* iterations of e_optimizer[0]
    m_d_opt,         \* iterations of d_optimizer
    m_pc,            \* "idle" | "prepared" | "loss" | "grads" | "enc_applied" | "dec_done" | "done" | "raised"
    m_kind,          \* "none" | "train" | "test"
    m_grads,         \* the weight versions the gradients of the step were taken at
    m_applied,       \* the apply_gradients calls of the running step
    m_start,         \* optimizer iterations when the running step started
    m_tracker,       \* rec_loss_tracker.update_state calls of the running step
    (* heterogeneity AutoEncoder: configuration *)
    h_only_pos,      \* self.only_pos
    h_wiener,        \* self.CTF == "wiener"
    h_refPose,       \* the refPose flag (self.refPose is 1.0 or 0.0)
    predict_mode,    \* self.predict_mode, set by predict()
    applyCTF,        \* self.applyCTF, set by predict()
    (* heterogeneity AutoEncoder: batch-scoped fields of the generator *)
    g_indexes,       \* generator.indexes
    g_current_images,\* generator.current_images
    rot_batch,       \* generator.rot_batch
    tilt_batch,      \* generator.tilt_batch
    psi_batch,       \* generator.psi_batch
    shifts_batch,    \* generator.shifts_batch = [x, y]
    g_ctf,           \* generator.ctf
    g_CTF,           \* generator.CTF
    (* heterogeneity AutoEncoder: the running step *)
    h_pc,            \* "idle" | "prepared" | "filtered" | "loss" | "done" | "raised"
    h_kind,          \* "none" | "train" | "test" | "predict"
    h_images,        \* the local images of the step
    h_values,        \* delta_het: corrected density, per batch element and voxel
    h_neg_loss,      \* neg_loss_het
    h_out,           \* what the step returned
    h_error,         \* the exception that ended the step ("none" if none)
    h_weights,       \* version of the learned weights (encoder and decoder)
    h_opt,           \* iterations of self.optimizer
    h_start,         \* optimizer iterations when the running step started
    h_applied,       \* the apply_gradients calls of the running train step
    \* --- het_siren.AutoEncoder.eval_volume_het -------------------------------
    gen_step,        \* generator.step
    gen_coords,      \* generator.coords: the coordinate set in use
    v_pc,            \* "idle" | "loop" | "done" | "raised"
    v_args,          \* the arguments of the running call
    v_entry_coords,  \* generator.coords when the running call started
    prev_coords,     \* the local prev_coords (0: unbound)
    new_coords,      \* the local new_coords that are still to be visited
    original_volume, \* the local original_volume
    v_grid,          \* Decoder.eval_volume_het: the grids before thresholding
    v_decoded,       \* Decoder.eval_volume_het: the grids it returned
    v_volume,        \* the local volume
    v_error,         \* the exception that ended the call ("none" if none)
    v_called,        \* the networks the running evaluation has called
    \* --- the tensor functions of the losses and of the projection -------------
    f_op,            \* the function applied last ("none" before the first)
    f_in,            \* its arguments
    f_out,           \* what it returned
    \* --- two steps of one heterogeneity model run by two threads -------------
    c_pc,            \* per thread: "idle" | "prepared" | "done"
    c_indexes,       \* per thread: the indexes of its batch (a local)
    c_read,          \* per thread: the generator fields its forward pass read
    c_overlap,       \* per thread: the other thread was in a step during its step
    \* --- the phases of the running steps --------------------------------------
    m_phases,        \* multi-head model: the phases its running step went through
    h_phases,        \* heterogeneity model: the same
    m_ctf,           \* multi-head model: generator.ctf
    m_batch,         \* multi-head model: the batch of the running step, how far
                     \* the step is with it, the CTFs its filters found on the
                     \* generator
    h_pose,          \* heterogeneity model: the pose corrections the running step
                     \* gave to the decoder or returned
    h_ctf_used       \* heterogeneity model: the CTFs the filters of the running
                     \* step found on the generator

p_vars == <<p_pc, p_B, p_idr, p_loss, prev_loss_rec, keep_r, keep_shifts, keep_imgs>>

cfg_vars == <<only_pos, only_pose, noSym>>

d_vars == <<d_pc, d_B, d_idr, d_delta, d_cand, d_prev, d_loss_rec, d_neg_loss>>

w_vars == <<m_w_enc, m_w_dec>>

m_vars == <<m_e_opt, m_d_opt, m_pc, m_kind, m_grads, m_applied, m_start, m_tracker>>

hcfg_vars == <<h_only_pos, h_wiener, h_refPose>>

g_vars == <<g_indexes, g_current_images, rot_batch, tilt_batch, psi_batch,
            shifts_batch, g_ctf, g_CTF>>

h_vars == <<predict_mode, applyCTF, h_pc, h_kind, h_images, h_values, h_neg_loss,
            h_out, h_error, h_weights, h_opt, h_start, h_applied>>

v_vars == <<gen_step, gen_coords, v_pc, v_args, v_entry_coords, prev_coords, new_coords,
            original_volume, v_grid, v_decoded, v_volume, v_error, v_called>>

f_vars == <<f_op, f_in, f_out>>

c_vars == <<c_pc, c_indexes, c_read, c_overlap>>

b_vars == <<m_ctf, m_batch>>

m_log == <<m_phases, b_vars>>

h_log == <<h_phases, h_ctf_used, h_pose>>

vars == <<p_vars, cfg_vars, d_vars, w_vars, m_vars, hcfg_vars, g_vars, h_vars, v_vars,
          f_vars, c_vars, m_log, h_log>>

\* what the actions of one operation leave alone: the state of the others
het_all == <<hcfg_vars, g_vars, h_vars>>

p_frame == <<cfg_vars, d_vars, w_vars, m_vars, het_all, v_vars, f_vars, c_vars, m_log, h_log>>

d_frame == <<cfg_vars, p_vars, w_vars, m_vars, het_all, v_vars, f_vars, c_vars, m_log, h_log>>

m_frame == <<cfg_vars, p_vars, d_vars, het_all, v_vars, f_vars, c_vars, h_log, b_vars>>

b_frame == <<cfg_vars, p_vars, d_vars, w_vars, m_vars, het_all, v_vars, f_vars, c_vars,
            m_phases, h_log>>

h_frame == <<hcfg_vars, cfg_vars, p_vars, d_vars, w_vars, m_vars, v_vars, f_vars, c_vars, m_log>>

v_frame == <<cfg_vars, p_vars, d_vars, w_vars, m_vars, het_all, f_vars, c_vars, m_log, h_log>>

f_frame == <<cfg_vars, p_vars, d_vars, w_vars, m_vars, het_all, v_vars, c_vars, m_log,
            h_log>>

c_frame == <<cfg_vars, p_vars, d_vars, w_vars, m_vars, hcfg_vars, h_vars, v_vars, f_vars,
            m_log, h_log>>

-----------------------------------------------------------------------------
(* Bounds of the model *)

\* largest batch the data loader yields (the last batch may be smaller)
MaxBatch == 2

\* n_candidates, the number of head encoders the model is built with
NCand == 2

\* generator.total_voxels, the number of voxels of the coordinate grid
NVox == 2

\* number of particles in the metadata of the generator
NPart == 2

\* number of weight updates a run is followed for
MaxUpdates == 1

\* largest generator.step
MaxStep == 2

\* generator.xsize: the side of the images, in pixels
XSize == 2

\* the largest number of multi-resolution levels a model is built with
MaxLevels == 4

(* Program constants *)

\* prev_loss_rec = 10000. * tf.ones(B)
InitLoss == 10000

\* the values self.cost can return for one image: below, at and above InitLoss
Losses == {1, 2, InitLoss, InitLoss + 1}

Batch(B) == 1..B

Voxels == 1..NVox

-----------------------------------------------------------------------------
(* float32 values: a rational n/d, nan, or an infinity of sign n *)

RECURSIVE GCD(_, _)
GCD(a, b) == IF b = 0 THEN a ELSE GCD(b, a % b)

Abs(x) == IF x < 0 THEN -x ELSE x

NaN == [k |-> "nan", n |-> 0, d |-> 1]

Inf(sign) == [k |-> "inf", n |-> sign, d |-> 1]

\* the float n/d, d # 0, in lowest terms with a positive denominator
Q(n, d) ==
    LET g == GCD(Abs(n), Abs(d))
        s == IF d < 0 THEN -1 ELSE 1
    IN [k |-> "num", n |-> s * (n \div g), d |-> Abs(d) \div g]

F(n) == Q(n, 1)

Sign(x) == IF x.n > 0 THEN 1 ELSE IF x.n < 0 THEN -1 ELSE 0

IsNum(x) == x.k = "num"

FAdd(x, y) ==
    IF x.k = "nan" \/ y.k = "nan" THEN NaN
    ELSE IF x.k = "inf" /\ y.k = "inf" THEN (IF x.n = y.n THEN x ELSE NaN)
    ELSE IF x.k = "inf" THEN x
    ELSE IF y.k = "inf" THEN y
    ELSE Q(x.n * y.d + y.n * x.d, x.d * y.d)

FMul(x, y) ==
    IF x.k = "nan" \/ y.k = "nan" THEN NaN
    ELSE IF x.k = "inf" \/ y.k = "inf"
         THEN (IF Sign(x) = 0 \/ Sign(y) = 0 THEN NaN ELSE Inf(Sign(x) * Sign(y)))
    ELSE Q(x.n * y.n, x.d * y.d)

\* x / y as the float division does it: x/0 is an infinity, 0/0 is nan
FDiv(x, y) ==
    IF x.k = "nan" \/ y.k = "nan" THEN NaN
    ELSE IF x.k = "inf" THEN (IF y.k = "inf" THEN NaN
                              ELSE Inf(IF Sign(y) < 0 THEN -x.n ELSE x.n))
    ELSE IF y.k = "inf" THEN F(0)
    ELSE IF y.n = 0 THEN (IF x.n = 0 THEN NaN ELSE Inf(Sign(x)))
    ELSE Q(x.n * y.d, x.d * y.n)

\* x <= y; every comparison with nan is false
FLe(x, y) ==
    /\ x.k # "nan" /\ y.k # "nan"
    /\ IF x.k = "inf" THEN (x.n < 0 \/ (y.k = "inf" /\ y.n > 0))
       ELSE IF y.k = "inf" THEN y.n > 0
       ELSE x.n * y.d <= y.n * x.d

FLess(x, y) == FLe(x, y) /\ x # y

\* tf.reduce_min over the two stacked values
FMin2(x, y) ==
    IF x.k = "nan" \/ y.k = "nan" THEN NaN ELSE IF FLe(x, y) THEN x ELSE y

RECURSIVE SeqSum(_)
SeqSum(s) == IF s = <<>> THEN 0 ELSE Head(s) + SeqSum(Tail(s))

RECURSIVE FSum(_)
FSum(s) == IF s = <<>> THEN F(0) ELSE FAdd(Head(s), FSum(Tail(s)))

\* tf.boolean_mask(t, tf.less(t, 0.0)): the negative entries of an integer tensor
NegEntries(t) == SelectSeq(t, LAMBDA v : v < 0)

\* tf.reduce_mean(tf.abs(t)) of an integer tensor: 0/0 = nan on an empty one
ReduceMeanAbs(t) ==
    FDiv(F(SeqSum([i \in DOMAIN t |-> Abs(t[i])])), F(Len(t)))

-----------------------------------------------------------------------------
(* Tensor helpers *)

\* tf.less_equal(a, b), elementwise over the batch
LessEqual(a, b) == [i \in DOMAIN a |-> a[i] <= b[i]]

\* tf.where(mask, x, y), elementwise over the batch; the mask is broadcast
\* over the trailing axes, so one batch element is taken whole from x or y
Where(mask, x, y) == [i \in DOMAIN mask |-> IF mask[i] THEN x[i] ELSE y[i]]

\* tf.zeros / c * tf.ones over the batch
Fill(B, c) == [i \in Batch(B) |-> c]

\* the rotation, shift and image candidate idr produces for each batch element:
\* the payload is identified by the index (1..NCand) of the head that made it
CandPayload(B, idr) == Fill(B, idr)

-----------------------------------------------------------------------------
(* reconsiren.py, AutoEncoder.predict_step *)

PInit ==
    /\ p_pc = "idle"
    /\ p_B = 0
    /\ p_idr = 0
    /\ p_loss = <<>>
    /\ prev_loss_rec = <<>>
    /\ keep_r = <<>>
    /\ keep_shifts = <<>>
    /\ keep_imgs = <<>>

\* lines 731-772: batch preparation and the zero-initialised outputs
PredictBegin ==
    /\ p_pc \in {"idle", "done"}
    /\ \E B \in 1..MaxBatch :
        /\ p_B' = B
        /\ prev_loss_rec' = Fill(B, InitLoss)
        /\ keep_r' = Fill(B, 0)
        /\ keep_shifts' = Fill(B, 0)
        /\ keep_imgs' = Fill(B, 0)
    /\ p_idr' = 0
    /\ p_loss' = <<>>
    /\ p_pc' = "loop"
    /\ UNCHANGED p_frame

\* the winner-takes-all mask of one iteration
KeepMask(loss_rec, prev) == LessEqual(loss_rec, prev)

\* lines 775-837: one iteration of the candidate loop
PredictCandidate ==
    /\ p_pc = "loop"
    /\ p_idr < NCand
    /\ \E loss_rec \in [Batch(p_B) -> Losses] :
        LET idr  == p_idr + 1
            mask == KeepMask(loss_rec, prev_loss_rec)
        IN /\ prev_loss_rec' = Where(mask, loss_rec, prev_loss_rec)
           /\ keep_r' = Where(mask, CandPayload(p_B, idr), keep_r)
           /\ keep_shifts' = Where(mask, CandPayload(p_B, idr), keep_shifts)
           /\ keep_imgs' = Where(mask, CandPayload(p_B, idr), keep_imgs)
           /\ p_loss' = Append(p_loss, loss_rec)
           /\ p_idr' = idr
    /\ UNCHANGED <<p_pc, p_B>>
    /\ UNCHANGED p_frame

\* line 839: return keep_r, keep_shifts, keep_imgs
PredictReturn ==
    /\ p_pc = "loop"
    /\ p_idr = NCand
    /\ p_pc' = "done"
    /\ UNCHANGED <<p_B, p_idr, p_loss, prev_loss_rec, keep_r, keep_shifts, keep_imgs>>
    /\ UNCHANGED p_frame

PNext == PredictBegin \/ PredictCandidate \/ PredictReturn

-----------------------------------------------------------------------------
(* reconsiren.py, the multi-head AutoEncoder: construction *)

\* AutoEncoder.__init__: the flags the model is built with
MHConfig ==
    /\ only_pos \in BOOLEAN
    /\ only_pose \in BOOLEAN
    /\ noSym \in {1, 2}

\* the defaults of AutoEncoder.__init__ and a generator without symmetry
MHDefault ==
    /\ only_pos = TRUE
    /\ only_pose = FALSE
    /\ noSym = 1

\* self.l1_lambda (default 0.1)
L1Lambda == Q(1, 10)

\* generator.values: the base value of every voxel (the reference volume)
GenValues == [i \in Voxels |-> IF i = 1 THEN 0 ELSE 1]

\* self.decoder_delta(o) under decoder weights w: the last layer is 'relu' when
\* the Decoder is built with only_pos and 'linear' otherwise
DecoderDelta(w, pos) ==
    [i \in Voxels |->
        LET linear == ((w + i) % 3) - 1
        IN IF pos /\ linear < 0 THEN 0 ELSE linear]

\* delta of decode_images_with_loss: 0.0 in pose-only mode, else self.decoder_delta(o)
DecodeDelta(w, pos, pose) ==
    IF pose THEN [i \in Voxels |-> 0] ELSE DecoderDelta(w, pos)

\* values = delta + self.generator.values[None, :]
Corrected(delta) == [i \in Voxels |-> GenValues[i] + delta[i]]

-----------------------------------------------------------------------------
(* reconsiren.py, AutoEncoder.decode_images_with_loss *)

\* the values self.cost can return for one image and one symmetry copy
Costs == {F(1), F(2 * InitLoss + 1)}

DIdle ==
    /\ d_pc = "idle"
    /\ d_B = 0
    /\ d_idr = 0
    /\ d_delta = <<>>
    /\ d_cand = <<>>
    /\ d_prev = <<>>
    /\ d_loss_rec = <<>>
    /\ d_neg_loss = F(0)

\* lines 508-524: the running minimum starts at 10000, the decoder gives delta
DecodeBegin ==
    /\ d_pc \in {"idle", "done"}
    /\ \E B \in 1..MaxBatch : d_B' = B /\ d_prev' = Fill(B, F(InitLoss))
    /\ d_delta' = DecodeDelta(m_w_dec, only_pos, only_pose)
    /\ d_idr' = 0
    /\ d_cand' = <<>>
    /\ d_loss_rec' = <<>>
    /\ d_neg_loss' = F(0)
    /\ d_pc' = "loop"
    /\ UNCHANGED d_frame

\* lines 533-592: the symmetry loop, loss_rec += cost and loss_rec /= noSym
SymAverage(cost, B) ==
    [b \in Batch(B) |->
        FDiv(FSum([s \in 1..noSym |-> cost[s][b]]), F(noSym))]

\* line 594: tf.reduce_min(tf.stack([loss_rec, prev_loss_rec], axis=-1), axis=-1)
RunningMin(loss_rec, prev) == [b \in DOMAIN prev |-> FMin2(loss_rec[b], prev[b])]

\* lines 526-607: one iteration of the candidate loop
DecodeCandidate ==
    /\ d_pc = "loop"
    /\ d_idr < NCand
    /\ \E cost \in [1..noSym -> [Batch(d_B) -> Costs]] :
        LET loss_rec == SymAverage(cost, d_B)
        IN /\ d_cand' = Append(d_cand, loss_rec)
           /\ d_prev' = RunningMin(loss_rec, d_prev)
    /\ d_idr' = d_idr + 1
    /\ UNCHANGED <<d_pc, d_B, d_delta, d_loss_rec, d_neg_loss>>
    /\ UNCHANGED d_frame

\* lines 625-632: the negative-density penalty of the multi-head model
MHNegLoss(values, pos) ==
    IF ~pos
    THEN LET delta_neg == ReduceMeanAbs(NegEntries(values))
         IN FMul(FMul(F(IF pos THEN 1 ELSE 0), L1Lambda), delta_neg)
    ELSE F(0)

\* lines 609-640: the regularisers are computed and added to the last loss_rec
DecodeFinish ==
    /\ d_pc = "loop"
    /\ d_idr = NCand
    /\ d_loss_rec' = d_prev
    /\ d_neg_loss' = MHNegLoss(Corrected(d_delta), only_pos)
    /\ d_pc' = "done"
    /\ UNCHANGED <<d_B, d_idr, d_delta, d_cand, d_prev>>
    /\ UNCHANGED d_frame

DNext == DecodeBegin \/ DecodeCandidate \/ DecodeFinish

-----------------------------------------------------------------------------
(* The particles of the generator and the batches of the data loader *)

Particles == 1..NPart

\* the per-particle metadata arrays of the generator
AngleRot == [i \in Particles |-> 10 * i + 1]

AngleTilt == [i \in Particles |-> 10 * i + 2]

AnglePsi == [i \in Particles |-> 10 * i + 3]

ShiftX == [i \in Particles |-> 10 * i + 4]

ShiftY == [i \in Particles |-> 10 * i + 5]

\* defocusU, defocusV, defocusAngle and cs of one particle
Defocus == [i \in Particles |-> 10 * i + 6]

\* the image of one particle as the data loader yields it
Image(i) == [particle |-> i, wiener |-> "no"]

\* a batch of the data loader: data[1], the indexes of up to MaxBatch distinct
\* particles (in increasing order), and data[0], their images
Batches ==
    {idx \in UNION {[Batch(B) -> Particles] : B \in 1..MaxBatch} :
        \A i \in DOMAIN idx : \A j \in DOMAIN idx : i < j => idx[i] < idx[j]}

ImagesOf(indexes) == [i \in DOMAIN indexes |-> Image(indexes[i])]

\* tf.gather(array, indexes, axis=0)
Gather(array, indexes) == [i \in DOMAIN indexes |-> array[indexes[i]]]

\* batch_size_scope = tf.shape(images)[0]
BatchSizeScope(images) == Len(images)

\* (mutation) the CTFs are not computed from the metadata of the batch
ComputeCTFUnset(defocus_batch, batch_size_scope) ==
    [i \in 1..batch_size_scope |-> [ctf_of |-> 0]]

\* computeCTF(defocusU_batch, ..., batch_size_scope, applyCTF): one CTF per image
ComputeCTF(defocus_batch, batch_size_scope) ==
    [i \in 1..batch_size_scope |-> [ctf_of |-> defocus_batch[i]]]

-----------------------------------------------------------------------------
(* reconsiren.py, AutoEncoder.train_step *)

\* the phase is entered, unless the step is in it already
Enter(phases, phase) ==
    IF phases # <<>> /\ phases[Len(phases)] = phase THEN phases ELSE Append(phases, phase)

RECURSIVE EnterAll(_, _)
EnterAll(phases, more) ==
    IF more = <<>> THEN phases ELSE EnterAll(Enter(phases, Head(more)), Tail(more))

\* decode_images_with_loss, lines 517-607, for one candidate: head_encoder[idr]
\* (524), the scatter of the rotated coordinates (554-573), self.cost (580-592)
CandidatePhases == <<"encoded", "decoded/scattered", "loss-computed">>

RECURSIVE CandidatesPhases(_)
CandidatesPhases(n) ==
    IF n = 0 THEN <<>> ELSE CandidatesPhases(n - 1) \o CandidatePhases

\* decode_images_with_loss: common_encoder (517), decoder_delta (518-521), the
\* loop over the candidates (523-607), the regularisers (609-640)
DecodePhases ==
    <<"encoded", "decoded/scattered">> \o CandidatesPhases(NCand) \o <<"loss-computed">>

\* no step has run: no batch, no filter
NoBatch == [pc |-> "idle", indexes |-> <<>>, applyCTF |-> FALSE, used |-> <<>>]

\* a freshly built and compiled model
MFresh ==
    /\ m_w_enc = 0
    /\ m_w_dec = 0

\* a model whose weights were loaded from a checkpoint of any age
MLoaded ==
    /\ m_w_enc \in 0..MaxUpdates
    /\ m_w_dec \in 0..MaxUpdates

MIdle ==
    /\ m_e_opt = 0
    /\ m_d_opt = 0
    /\ m_pc = "idle"
    /\ m_kind = "none"
    /\ m_grads = <<>>
    /\ m_applied = <<>>
    /\ m_start = <<0, 0>>
    /\ m_tracker = 0
    /\ m_phases = <<>>
    /\ m_ctf = <<>>
    /\ m_batch = NoBatch

MStepOver == m_pc \in {"idle", "done", "raised"}

\* lines 642-652: prepare_batch and the Wiener filter
MTrainPrepare ==
    /\ MStepOver
    /\ m_w_enc < MaxUpdates
    /\ m_kind' = "train"
    /\ m_pc' = "prepared"
    /\ m_grads' = <<>>
    /\ m_applied' = <<>>
    /\ m_start' = <<m_e_opt, m_d_opt>>
    /\ m_tracker' = 0
    /\ m_phases' = <<"batch-prepared">>
    /\ UNCHANGED <<m_e_opt, m_d_opt>>
    /\ UNCHANGED w_vars
    /\ UNCHANGED m_frame

\* lines 654-656: the loss under the gradient tape
MTrainLoss ==
    /\ m_kind = "train"
    /\ m_pc = "prepared"
    /\ m_pc' = "loss"
    /\ m_phases' = EnterAll(m_phases, DecodePhases)
    /\ UNCHANGED <<m_e_opt, m_d_opt, m_kind, m_grads, m_applied, m_start, m_tracker>>
    /\ UNCHANGED w_vars
    /\ UNCHANGED m_frame

\* (mutation) the decoder gradients are taken after the encoder update
GradientsAfterEncoder(pose, w_enc, w_dec) ==
    IF pose
    THEN [encoder |-> <<w_enc, w_dec>>, decoder |-> <<>>]
    ELSE [encoder |-> <<w_enc, w_dec>>, decoder |-> <<w_enc + 1, w_dec>>]

\* lines 664-667: which gradients the tape is asked for, each with the weights
\* (encoder, decoder) the loss of the tape was computed with
Gradients(pose, w_enc, w_dec) ==
    IF pose
    THEN [encoder |-> <<w_enc, w_dec>>, decoder |-> <<>>]
    ELSE [encoder |-> <<w_enc, w_dec>>, decoder |-> <<w_enc, w_dec>>]

\* lines 658-667: the encoder weights are collected, the gradients are taken
MTrainGradients ==
    /\ m_kind = "train"
    /\ m_pc = "loss"
    /\ m_grads' = Gradients(only_pose, m_w_enc, m_w_dec)
    /\ m_pc' = "grads"
    /\ UNCHANGED m_phases
    /\ UNCHANGED <<m_e_opt, m_d_opt, m_kind, m_applied, m_start, m_tracker>>
    /\ UNCHANGED w_vars
    /\ UNCHANGED m_frame

\* (mutation) the encoder optimizer is given every trainable weight of the model
AllGroups == {"encoder", "decoder"}

\* lines 658-661: encoder_weights, the weights of the common and head encoders
EncoderGroups == {"encoder"}

\* line 670: self.e_optimizer[0].apply_gradients(zip(grads_e, encoder_weights))
MTrainApplyEncoder ==
    /\ m_kind = "train"
    /\ m_pc = "grads"
    /\ m_w_enc' = m_w_enc + 1
    /\ m_w_dec' = IF "decoder" \in EncoderGroups THEN m_w_dec + 1 ELSE m_w_dec
    /\ m_e_opt' = m_e_opt + 1
    /\ m_applied' = Append(m_applied, [optimizer |-> "e_optimizer", groups |-> EncoderGroups])
    /\ m_pc' = "enc_applied"
    /\ m_phases' = Enter(m_phases, "gradients-applied")
    /\ UNCHANGED <<m_d_opt, m_kind, m_grads, m_start, m_tracker>>
    /\ UNCHANGED m_frame

\* (mutation) the decoder gradients are applied in every mode
AppliesDecoderAlways(pose) == TRUE

\* line 675: whether the decoder gradients are applied
AppliesDecoder(pose) == ~pose

\* lines 674-676: self.d_optimizer.apply_gradients, unless in pose-only mode
MTrainApplyDecoder ==
    /\ m_kind = "train"
    /\ m_pc = "enc_applied"
    /\ IF AppliesDecoder(only_pose)
       THEN /\ m_w_dec' = m_w_dec + 1
            /\ m_d_opt' = m_d_opt + 1
            /\ m_applied' = Append(m_applied,
                                   [optimizer |-> "d_optimizer", groups |-> {"decoder"}])
       ELSE UNCHANGED <<m_w_dec, m_d_opt, m_applied>>
    /\ m_pc' = "dec_done"
    /\ m_phases' = Enter(m_phases, "gradients-applied")
    /\ UNCHANGED <<m_w_enc, m_e_opt, m_kind, m_grads, m_start, m_tracker>>
    /\ UNCHANGED m_frame

\* lines 678-681: the tracker is updated and the metrics returned
MTrainReturn ==
    /\ m_kind = "train"
    /\ m_pc = "dec_done"
    /\ m_tracker' = m_tracker + 1
    /\ m_pc' = "done"
    /\ UNCHANGED m_phases
    /\ UNCHANGED <<m_e_opt, m_d_opt, m_kind, m_grads, m_applied, m_start>>
    /\ UNCHANGED w_vars
    /\ UNCHANGED m_frame

\* an operation of the running step raises: the step ends, nothing is undone
MRaise ==
    /\ m_pc \in {"prepared", "loss", "grads", "enc_applied", "dec_done"}
    /\ m_pc' = "raised"
    /\ IF m_pc = "prepared"
       THEN \E n \in 0..(Len(DecodePhases) - 1) :
                m_phases' = EnterAll(m_phases, SubSeq(DecodePhases, 1, n))
       ELSE UNCHANGED m_phases
    /\ UNCHANGED <<m_e_opt, m_d_opt, m_kind, m_grads, m_applied, m_start, m_tracker>>
    /\ UNCHANGED w_vars
    /\ UNCHANGED m_frame

\* train_step lines 645-646 and prepare_batch, lines 487-501: generator.ctf is
\* computed from the metadata of the batch and written; self.applyCTF (line
\* 447) is what the generator was built with
MBatchPrepare ==
    /\ m_batch.pc \in {"idle", "done"}
    /\ \E indexes \in Batches, apply \in BOOLEAN :
           /\ m_ctf' = ComputeCTF(Gather(Defocus, indexes), Len(indexes))
           /\ m_batch' = [pc |-> "prepared", indexes |-> indexes, applyCTF |-> apply,
                          used |-> <<>>]
    /\ UNCHANGED b_frame

\* train_step lines 648-652: generator.wiener2DFilter(images) if self.applyCTF
MBatchWiener ==
    /\ m_batch.pc = "prepared"
    /\ m_batch' = [m_batch EXCEPT
                      !.pc = "filtered",
                      !.used = IF m_batch.applyCTF
                               THEN Append(@, [by |-> "wiener2DFilter", ctf |-> m_ctf])
                               ELSE @]
    /\ UNCHANGED m_ctf
    /\ UNCHANGED b_frame

\* train_step lines 654-656 and decode_images_with_loss, lines 579-580:
\* generator.ctfFilterImage(imgs) if self.applyCTF
MBatchDecode ==
    /\ m_batch.pc = "filtered"
    /\ m_batch' = [m_batch EXCEPT
                      !.pc = "done",
                      !.used = IF m_batch.applyCTF
                               THEN Append(@, [by |-> "ctfFilterImage", ctf |-> m_ctf])
                               ELSE @]
    /\ UNCHANGED m_ctf
    /\ UNCHANGED b_frame

MTrainNext ==
    \/ MTrainPrepare \/ MTrainLoss \/ MTrainGradients \/ MTrainApplyEncoder
    \/ MTrainApplyDecoder \/ MTrainReturn \/ MRaise

\* line 508: the parameters of decode_images_with_loss after self
DecodeImagesWithLossParams == <<"images", "images_corrected">>

\* line 699: the arguments test_step calls decode_images_with_loss with
TestStepArgs == <<"images">>

\* a call of a method without defaults binds one argument to each parameter
Call(params, args) == IF Len(args) = Len(params) THEN "bound" ELSE "TypeError"

\* test_step, lines 689-693: prepare_batch
MTestPrepare ==
    /\ MStepOver
    /\ m_kind' = "test"
    /\ m_pc' = "test_prepared"
    /\ m_grads' = <<>>
    /\ m_applied' = <<>>
    /\ m_start' = <<m_e_opt, m_d_opt>>
    /\ m_tracker' = 0
    /\ m_phases' = <<"batch-prepared">>
    /\ UNCHANGED <<m_e_opt, m_d_opt>>
    /\ UNCHANGED w_vars
    /\ UNCHANGED m_frame

\* test_step, lines 695-704: the Wiener filter, the call of
\* decode_images_with_loss, the tracker and the metrics
MTestLoss ==
    /\ m_kind = "test"
    /\ m_pc = "test_prepared"
    /\ IF Call(DecodeImagesWithLossParams, TestStepArgs) = "bound"
       THEN /\ m_phases' = EnterAll(m_phases, DecodePhases)
            /\ m_tracker' = m_tracker + 1
            /\ m_pc' = "done"
       ELSE /\ m_pc' = "raised"
            /\ UNCHANGED <<m_phases, m_tracker>>
    /\ UNCHANGED <<m_e_opt, m_d_opt, m_kind, m_grads, m_applied, m_start>>
    /\ UNCHANGED w_vars
    /\ UNCHANGED m_frame

MNext == MTrainNext \/ MTestPrepare \/ MTestLoss

-----------------------------------------------------------------------------
(* het_siren.py, the heterogeneity AutoEncoder: construction and data *)

\* AutoEncoder.__init__: the flags the model is built with
HetConfig ==
    /\ h_only_pos \in BOOLEAN
    /\ h_wiener \in BOOLEAN
    /\ h_refPose \in BOOLEAN

\* the defaults of AutoEncoder.__init__
HetDefault ==
    /\ h_only_pos = TRUE
    /\ h_wiener = TRUE
    /\ h_refPose = TRUE

\* self.l1_lambda (default 0.5)
HetL1Lambda == Q(1, 2)

\* (mutation) the fields are gathered with what generator.indexes held before
GatherIndexesStale(indexes) ==
    [i \in DOMAIN indexes |-> IF i \in DOMAIN g_indexes THEN g_indexes[i] ELSE indexes[i]]

\* the index array the per-particle fields are gathered with
GatherIndexes(indexes) == indexes

\* generator.wiener2DFilter(images): corrects every image with generator.ctf
Wiener2DFilter(images) ==
    [i \in DOMAIN images |-> [images[i] EXCEPT !.wiener = g_ctf[i]]]

\* self.decoder.decode_het(het) for the image of particle i under weights w
DecodeHet(w, i) == [v \in Voxels |-> ((w + i + v) % 3) - 1]

\* delta_het = decode_het(het) + generator.values[None, :]
CorrectedHet(w, indexes) ==
    [b \in DOMAIN indexes |->
        [v \in Voxels |-> DecodeHet(w, indexes[b])[v] + GenValues[v]]]

RECURSIVE Flatten(_)
Flatten(rows) == IF rows = <<>> THEN <<>> ELSE Head(rows) \o Flatten(Tail(rows))

NoOut == [kind |-> "none", of |-> <<>>]

NoPose == [to |-> "none", rows |-> <<>>, shifts |-> <<>>]

\* self.refPose, line 628
RefPose == IF h_refPose THEN 1 ELSE 0

\* self.encoder(inputs): the pose rows and the shifts the encoder gives for the
\* images under weights w; the flag the encoder was built with only freezes
\* the layers of the two heads (trainable=refPose), their outputs are what the
\* initial weights of the layers give
Encoder(w, images) ==
    [rows |-> [b \in DOMAIN images |-> ((w + images[b].particle) % 2) + 1],
     shifts |-> [b \in DOMAIN images |-> 0 - (((w + images[b].particle) % 2) + 1)]]

\* self.refPose * rows, self.refPose * shifts
ScalePose(c, pose) ==
    [rows |-> [b \in DOMAIN pose.rows |-> c * pose.rows[b]],
     shifts |-> [b \in DOMAIN pose.shifts |-> c * pose.shifts[b]]]

\* the corrections the decoder is called with
ToDecoder(pose) == [to |-> "decoder", rows |-> pose.rows, shifts |-> pose.shifts]

\* the corrections a step returns
Returned(pose) == [to |-> "returned", rows |-> pose.rows, shifts |-> pose.shifts]

\* a freshly built and compiled model
HFresh == h_weights = 0

\* a model whose weights were loaded from a checkpoint of any age
HLoaded == h_weights \in 0..MaxUpdates

HIdle ==
    /\ predict_mode = "het"
    /\ applyCTF = FALSE
    /\ g_indexes = <<>>
    /\ g_current_images = <<>>
    /\ rot_batch = <<>>
    /\ tilt_batch = <<>>
    /\ psi_batch = <<>>
    /\ shifts_batch = <<>>
    /\ g_ctf = <<>>
    /\ g_CTF = "unset"
    /\ h_pc = "idle"
    /\ h_kind = "none"
    /\ h_images = <<>>
    /\ h_values = <<>>
    /\ h_neg_loss = F(0)
    /\ h_out = NoOut
    /\ h_error = "none"
    /\ h_opt = 0
    /\ h_start = 0
    /\ h_applied = <<>>
    /\ h_phases = <<>>
    /\ h_ctf_used = <<>>
    /\ h_pose = NoPose

-----------------------------------------------------------------------------
(* het_siren.py, AutoEncoder.train_step, test_step, predict and predict_step *)

HetStepOver == h_pc \in {"idle", "done", "raised"}

\* (mutation) the losses are computed before the forward pass
ForwardPhasesLossFirst == <<"loss-computed", "encoded", "decoded/scattered">>

\* train_step lines 698-757 and test_step lines 816-871: self.encoder,
\* self.decoder and decode_het, the losses
ForwardPhases == <<"encoded", "decoded/scattered", "loss-computed">>

\* lines 662-687 (train), 781-806 (test), 953-978 (predict): the batch-scoped
\* fields are written on the generator
PrepareBatch(indexes, images) ==
    LET idx == GatherIndexes(indexes)
    IN /\ g_indexes' = indexes
       /\ g_current_images' = images
       /\ rot_batch' = Gather(AngleRot, idx)
       /\ tilt_batch' = Gather(AngleTilt, idx)
       /\ psi_batch' = Gather(AnglePsi, idx)
       /\ shifts_batch' = <<Gather(ShiftX, idx), Gather(ShiftY, idx)>>
       /\ g_ctf' = ComputeCTF(Gather(Defocus, idx), BatchSizeScope(images))
       /\ h_images' = images
       /\ h_values' = <<>>
       /\ h_neg_loss' = F(0)
       /\ h_out' = NoOut
       /\ h_error' = "none"
       /\ h_applied' = <<>>
       /\ h_start' = h_opt
       /\ h_phases' = <<"batch-prepared">>
       /\ h_ctf_used' = <<>>
       /\ h_pose' = NoPose
       /\ h_pc' = "prepared"

\* train_step, lines 652-687
HTrainPrepare ==
    /\ HetStepOver
    /\ h_weights < MaxUpdates
    /\ \E indexes \in Batches : PrepareBatch(indexes, ImagesOf(indexes))
    /\ h_kind' = "train"
    /\ UNCHANGED <<predict_mode, applyCTF, g_CTF, h_weights, h_opt>>
    /\ UNCHANGED h_frame

\* test_step, lines 771-806
HTestPrepare ==
    /\ HetStepOver
    /\ \E indexes \in Batches : PrepareBatch(indexes, ImagesOf(indexes))
    /\ h_kind' = "test"
    /\ UNCHANGED <<predict_mode, applyCTF, g_CTF, h_weights, h_opt>>
    /\ UNCHANGED h_frame

\* predict, lines 937-941: the mode is stored, then the batches are stepped through
HPredictCall ==
    /\ HetStepOver
    /\ predict_mode' \in {"het", "particles", "volume"}
    /\ applyCTF' \in BOOLEAN
    /\ h_kind' = "predict"
    /\ h_pc' = "called"
    /\ h_out' = NoOut
    /\ h_error' = "none"
    /\ h_pose' = NoPose
    /\ UNCHANGED <<h_phases, h_ctf_used>>
    /\ UNCHANGED <<h_images, h_values, h_neg_loss, h_weights, h_opt, h_start, h_applied>>
    /\ UNCHANGED g_vars
    /\ UNCHANGED h_frame

\* predict_step, lines 943-978
HPredictPrepare ==
    /\ h_kind = "predict"
    /\ h_pc \in {"called", "done"}
    /\ \E indexes \in Batches : PrepareBatch(indexes, ImagesOf(indexes))
    /\ UNCHANGED <<predict_mode, applyCTF, g_CTF, h_kind, h_weights, h_opt>>
    /\ UNCHANGED h_frame

\* lines 689-695, 808-814, 980-986: the Wiener filter of the three steps
HWiener ==
    /\ h_pc = "prepared"
    /\ h_images' = IF h_wiener THEN Wiener2DFilter(h_images) ELSE h_images
    /\ h_ctf_used' = IF h_wiener
                     THEN Append(h_ctf_used, [by |-> "wiener2DFilter", ctf |-> g_ctf])
                     ELSE h_ctf_used
    /\ h_pc' = "filtered"
    /\ UNCHANGED <<h_phases, h_pose>>
    /\ UNCHANGED <<predict_mode, applyCTF, h_kind, h_values, h_neg_loss, h_out,
                   h_error, h_weights, h_opt, h_start, h_applied>>
    /\ UNCHANGED g_vars
    /\ UNCHANGED h_frame

\* train_step lines 712-717: the negative-density penalty
TrainNegLoss(delta_het) ==
    LET delta_neg == NegEntries(Flatten(delta_het))
        delta_neg_size == F(Len(delta_neg))
    IN FDiv(FMul(HetL1Lambda, ReduceMeanAbs(delta_neg)), delta_neg_size)

\* test_step lines 830-838: the same penalty, only in only_pos mode
TestNegLoss(delta_het, pos) ==
    IF pos THEN TrainNegLoss(delta_het) ELSE F(0)

\* Decoder.__init__, lines 571-573: the decoder filters its images with
\* generator.ctf when the model was built with CTF="apply", which it was not if
\* it was built with CTF="wiener"
DecoderAppliesCTF == IF h_wiener THEN {FALSE} ELSE BOOLEAN

\* self.decoder(...): the decoded images, filtered with the CTF if so built
DecoderCall(apply) ==
    h_ctf_used' = IF apply
                  THEN Append(h_ctf_used, [by |-> "ctfFilterImage", ctf |-> g_ctf])
                  ELSE h_ctf_used

\* train_step, lines 697-759: forward pass and losses under the gradient tape
HTrainLoss ==
    /\ h_kind = "train"
    /\ h_pc = "filtered"
    /\ h_values' = CorrectedHet(h_weights, g_indexes)
    /\ h_neg_loss' = TrainNegLoss(h_values')
    /\ h_phases' = EnterAll(h_phases, ForwardPhases)
    /\ h_pose' = ToDecoder(ScalePose(RefPose, Encoder(h_weights, h_images)))
    /\ \E apply \in DecoderAppliesCTF : DecoderCall(apply)
    /\ h_pc' = "loss"
    /\ UNCHANGED <<predict_mode, applyCTF, h_kind, h_images, h_out, h_error, h_weights,
                   h_opt, h_start, h_applied>>
    /\ UNCHANGED g_vars
    /\ UNCHANGED h_frame

\* self.trainable_weights: the weights of the encoder and of the decoder
TrainableWeights == {"encoder", "decoder"}

\* train_step, lines 761-769: one optimizer updates all trainable weights
HTrainApply ==
    /\ h_kind = "train"
    /\ h_pc = "loss"
    /\ h_weights' = h_weights + 1
    /\ h_opt' = h_opt + 1
    /\ h_applied' = Append(h_applied,
                           [optimizer |-> "optimizer", groups |-> TrainableWeights])
    /\ h_out' = [kind |-> "metrics", of |-> <<>>]
    /\ h_phases' = Enter(h_phases, "gradients-applied")
    /\ UNCHANGED <<h_ctf_used, h_pose>>
    /\ h_pc' = "done"
    /\ UNCHANGED <<predict_mode, applyCTF, h_kind, h_images, h_values, h_neg_loss,
                   h_error, h_start>>
    /\ UNCHANGED g_vars
    /\ UNCHANGED h_frame

\* test_step, lines 816-880: forward pass, losses and trackers
HTestLoss ==
    /\ h_kind = "test"
    /\ h_pc = "filtered"
    /\ h_values' = CorrectedHet(h_weights, g_indexes)
    /\ h_neg_loss' = TestNegLoss(h_values', h_only_pos)
    /\ h_out' = [kind |-> "metrics", of |-> <<>>]
    /\ h_phases' = EnterAll(h_phases, ForwardPhases)
    /\ h_pose' = ToDecoder(ScalePose(RefPose, Encoder(h_weights, h_images)))
    /\ \E apply \in DecoderAppliesCTF : DecoderCall(apply)
    /\ h_pc' = "done"
    /\ UNCHANGED <<predict_mode, applyCTF, h_kind, h_images, h_error, h_weights, h_opt,
                   h_start, h_applied>>
    /\ UNCHANGED g_vars
    /\ UNCHANGED h_frame

\* (mutation) an unknown mode is served as the default mode
PredictDispatchDefault(mode) ==
    IF mode = "particles" THEN "decoder" ELSE "encoder"

\* predict_step, lines 994-999: what the step does for a prediction mode
PredictDispatch(mode) ==
    IF mode = "het" THEN "encoder"
    ELSE IF mode = "particles" THEN "decoder"
    ELSE "ValueError"

\* predict_step, lines 988-999
HPredictDispatch ==
    /\ h_kind = "predict"
    /\ h_pc = "filtered"
    /\ g_CTF' = IF applyCTF THEN "apply" ELSE "none"
    /\ LET what == PredictDispatch(predict_mode)
       IN IF what = "ValueError"
          THEN h_pc' = "raised" /\ h_out' = NoOut /\ h_error' = what
                                /\ UNCHANGED <<h_phases, h_ctf_used, h_pose>>
          ELSE h_pc' = "done" /\ h_out' = [kind |-> what, of |-> h_images]
                              /\ h_error' = "none"
                              /\ h_pose' =
                                     (IF what = "encoder"
                                      THEN Returned(Encoder(h_weights, h_images))
                                      ELSE ToDecoder(Encoder(h_weights, h_images)))
                              /\ h_phases' =
                                     EnterAll(h_phases,
                                              IF what = "encoder" THEN <<"encoded">>
                                              ELSE <<"encoded", "decoded/scattered">>)
                              /\ IF what = "decoder"
                                 THEN \E apply \in DecoderAppliesCTF : DecoderCall(apply)
                                 ELSE UNCHANGED h_ctf_used
    /\ UNCHANGED <<predict_mode, applyCTF, h_kind, h_images, h_values, h_neg_loss,
                   h_weights, h_opt, h_start, h_applied>>
    /\ UNCHANGED <<g_indexes, g_current_images, rot_batch, tilt_batch, psi_batch,
                   shifts_batch, g_ctf>>
    /\ UNCHANGED h_frame

\* a tensor operation of the running step raises: the step ends, nothing is undone
HRaise ==
    /\ h_pc \in {"prepared", "filtered", "loss"}
    /\ h_pc' = "raised"
    /\ h_out' = NoOut
    /\ h_error' = "OpError"
    /\ IF h_pc = "filtered" /\ h_kind \in {"train", "test"}
       THEN \E n \in 0..(Len(ForwardPhases) - 1) :
                h_phases' = EnterAll(h_phases, SubSeq(ForwardPhases, 1, n))
       ELSE UNCHANGED h_phases
    /\ UNCHANGED <<h_ctf_used, h_pose>>
    /\ UNCHANGED <<predict_mode, applyCTF, h_kind, h_images, h_values, h_neg_loss,
                   h_weights, h_opt, h_start, h_applied>>
    /\ UNCHANGED g_vars
    /\ UNCHANGED h_frame

\* eval_encoder, lines 882-892: x = [images, angles, shifts, ctf] of a batch;
\* the batch-scoped fields are written from x, generator.indexes is not
HEvalEncoderCall ==
    /\ HetStepOver
    /\ \E indexes \in Batches :
          LET x == <<ImagesOf(indexes), Gather(AngleRot, indexes),
                     <<Gather(ShiftX, indexes), Gather(ShiftY, indexes)>>,
                     ComputeCTF(Gather(Defocus, indexes), Len(indexes))>>
          IN /\ rot_batch' = x[2]
             /\ tilt_batch' = x[2]
             /\ psi_batch' = x[2]
             /\ shifts_batch' = <<x[3][1], x[3][2]>>
             /\ g_ctf' = x[4]
             /\ h_images' = x[1]
    /\ h_kind' = "eval_encoder"
    /\ h_pc' = "prepared"
    /\ h_values' = <<>>
    /\ h_neg_loss' = F(0)
    /\ h_out' = NoOut
    /\ h_error' = "none"
    /\ h_applied' = <<>>
    /\ h_start' = h_opt
    /\ h_phases' = <<"batch-prepared">>
    /\ h_ctf_used' = <<>>
    /\ h_pose' = NoPose
    /\ UNCHANGED <<predict_mode, applyCTF, g_indexes, g_current_images, g_CTF, h_weights,
                   h_opt>>
    /\ UNCHANGED h_frame

\* eval_encoder, lines 898-900: self.encoder.forward and the returned arrays
HEvalEncoderReturn ==
    /\ h_kind = "eval_encoder"
    /\ h_pc = "filtered"
    /\ h_out' = [kind |-> "encoder", of |-> h_images]
    /\ h_phases' = Enter(h_phases, "encoded")
    /\ h_pose' = Returned(ScalePose(RefPose, Encoder(h_weights, h_images)))
    /\ h_pc' = "done"
    /\ UNCHANGED h_ctf_used
    /\ UNCHANGED <<predict_mode, applyCTF, h_kind, h_images, h_values, h_neg_loss,
                   h_error, h_weights, h_opt, h_start, h_applied>>
    /\ UNCHANGED g_vars
    /\ UNCHANGED h_frame

HNext ==
    \/ HTrainPrepare \/ HTestPrepare \/ HPredictCall \/ HPredictPrepare
    \/ HWiener \/ HTrainLoss \/ HTrainApply \/ HTestLoss \/ HPredictDispatch
    \/ HRaise

-----------------------------------------------------------------------------
(* het_siren.py: evaluation of volumes (filterVol, Decoder.eval_volume_het, *)
(* AutoEncoder.eval_volume_het)                                             *)

\* thr of filterVol, in the unit of the density values (one unit is 1e-6)
Thr == 1

\* the cells of a line of the volume grid: one per density value, and one more
\* that no entry of generator.indices points to
Cells == 1..(NVox + 1)

\* generator.indices: the cell of every density value
Indices(i) == i

\* volume_grids[idx] = zeros; volume_grids[idx, o_z, o_y, o_x] = values[idx]
ScatterAssign(values) ==
    [c \in Cells |-> IF \E i \in Voxels : Indices(i) = c
                     THEN values[CHOOSE i \in Voxels : Indices(i) = c]
                     ELSE 0]

\* the neighbours of a cell under the circular convolution of the Fourier product
Before(c) == IF c = 1 THEN NVox + 1 ELSE c - 1

After(c) == IF c = NVox + 1 THEN 1 ELSE c + 1

\* applyKernelFourier: convolution with the B-spline (0.5, 1.0, 0.5), at twice
\* its scale so that the values stay whole
ApplyKernelFourier(grid) ==
    [c \in Cells |-> grid[Before(c)] + 2 * grid[c] + grid[After(c)]]

\* volume - (volume > thr) * thr + (volume < -thr) * thr - (volume == thr) * volume
SoftThreshold(v) ==
    v - (IF v > Thr THEN Thr ELSE 0) + (IF v < -Thr THEN Thr ELSE 0)
      - (IF v = Thr THEN v ELSE 0)

\* filterVol(volume)
FilterVol(grid) ==
    LET filtered == ApplyKernelFourier(grid)
    IN [c \in Cells |-> SoftThreshold(filtered[c])]

\* volume * (volume < 0.0)
NegPart(grid) == [c \in Cells |-> IF grid[c] < 0 THEN grid[c] ELSE 0]

\* volume * (volume >= 0.0)
PosPart(grid) == [c \in Cells |-> IF grid[c] >= 0 THEN grid[c] ELSE 0]

\* (mutation) the negative part is never added back
AddBackNever(pos, grid, neg_part) == grid

\* if not only_pos: volume_grids[idx] += neg_part
AddBack(pos, grid, neg_part) ==
    IF ~pos THEN [c \in Cells |-> grid[c] + neg_part[c]] ELSE grid

\* the grid of one batch element of Decoder.eval_volume_het before thresholding
GridOf(values, filter) ==
    IF filter THEN FilterVol(ScatterAssign(values)) ELSE ScatterAssign(values)

\* the body of the loop of Decoder.eval_volume_het on one grid
Thresholded(grid, pos) == AddBack(pos, PosPart(grid), NegPart(grid))

\* Decoder.eval_volume_het(x_het, filter, only_pos): the latent vectors x_het
\* are those of the particles of a batch
DecoderEvalVolumeHet(w, x_het, filter, pos) ==
    LET values == CorrectedHet(w, x_het)
    IN [b \in DOMAIN x_het |-> Thresholded(GridOf(values[b], filter), pos)]

\* generator.getAllCoordsMask(): one coordinate set per offset of the step
GetAllCoordsMask(step) == [k \in 1..step |-> k]

\* (mutation) the reference volume is read whenever it is asked for
ReadsOriginalUnchecked(add, exists) == add

\* add_to_original and volume_path.exists()
ReadsOriginal(add, exists) == add /\ exists

\* (mutation) generator.coords is left as the loop set it
CoordsLeft(allCoords, step, prev, current) == current

\* if allCoords and step > 1: generator.coords = prev_coords
CoordsAfter(allCoords, step, prev, current) ==
    IF allCoords /\ step > 1 THEN prev ELSE current

ZeroVolume(x_het) == [b \in DOMAIN x_het |-> [c \in Cells |-> 0]]

NoArgs == [x_het |-> <<>>, allCoords |-> FALSE, filter |-> TRUE, only_pos |-> FALSE,
           add_to_original |-> FALSE, exists |-> FALSE]

\* the generator as constructed: its step and the coordinate set it starts with
VConfig ==
    /\ gen_step \in 1..MaxStep
    /\ gen_coords \in 1..gen_step

VIdle ==
    /\ v_pc = "idle"
    /\ v_args = NoArgs
    /\ v_entry_coords = gen_coords
    /\ prev_coords = 0
    /\ new_coords = <<>>
    /\ original_volume = "None"
    /\ v_grid = <<>>
    /\ v_decoded = <<>>
    /\ v_volume = <<>>
    /\ v_error = "none"
    /\ v_called = {}

\* the generator of the prediction script: step = 1
VDefault ==
    /\ gen_step = 1
    /\ gen_coords = 1

\* AutoEncoder.eval_volume_het, lines 902-921: the call, the choice of the
\* coordinate sets, the reading of volume.mrc and the empty volume
VEvalCall ==
    /\ v_pc \in {"idle", "done", "raised"}
    /\ \E x_het \in Batches, allC, filter, pos, add, exists \in BOOLEAN :
        /\ v_args' = [x_het |-> x_het, allCoords |-> allC, filter |-> filter,
                      only_pos |-> pos, add_to_original |-> add, exists |-> exists]
        /\ v_entry_coords' = gen_coords
        /\ IF allC /\ gen_step > 1
           THEN /\ new_coords' = GetAllCoordsMask(gen_step)
                /\ prev_coords' = gen_coords
           ELSE /\ new_coords' = <<gen_coords>>
                /\ prev_coords' = 0
        /\ IF ReadsOriginal(add, exists)
           THEN IF exists
                THEN /\ original_volume' = "loaded"
                     /\ v_error' = "none"
                     /\ v_pc' = "loop"
                ELSE /\ original_volume' = "None"
                     /\ v_error' = "FileNotFoundError"
                     /\ v_pc' = "raised"
           ELSE /\ original_volume' = "None"
                /\ v_error' = "none"
                /\ v_pc' = "loop"
        /\ v_volume' = ZeroVolume(x_het)
    /\ v_grid' = <<>>
    /\ v_decoded' = <<>>
    /\ v_called' = {}
    /\ UNCHANGED <<gen_step, gen_coords>>
    /\ UNCHANGED v_frame

\* (mutation) the latent vectors are encoded again before they are decoded
EvalVolumeHetWithEncoder == {"encoder", "decode_het"}

\* Decoder.eval_volume_het, line 581: the one network it calls, self.decode_het
EvalVolumeHetNetworks == {"decode_het"}

\* lines 922-924: one turn of the loop over new_coords
VEvalCoords ==
    /\ v_pc = "loop"
    /\ new_coords # <<>>
    /\ gen_coords' = Head(new_coords)
    /\ new_coords' = Tail(new_coords)
    /\ v_grid' = [b \in DOMAIN v_args.x_het |->
                     GridOf(CorrectedHet(h_weights, v_args.x_het)[b], v_args.filter)]
    /\ v_decoded' = DecoderEvalVolumeHet(h_weights, v_args.x_het, v_args.filter,
                                         v_args.only_pos)
    /\ v_volume' = [b \in DOMAIN v_volume |->
                       [c \in Cells |-> v_volume[b][c] + v_decoded'[b][c]]]
    /\ v_called' = v_called \cup EvalVolumeHetNetworks
    /\ UNCHANGED <<gen_step, v_pc, v_args, v_entry_coords, prev_coords,
                   original_volume, v_error>>
    /\ UNCHANGED v_frame

\* lines 932-935: the coordinates are put back and the volume is returned
VEvalReturn ==
    /\ v_pc = "loop"
    /\ new_coords = <<>>
    /\ gen_coords' = CoordsAfter(v_args.allCoords, gen_step, prev_coords, gen_coords)
    /\ v_pc' = "done"
    /\ UNCHANGED <<gen_step, v_args, v_entry_coords, prev_coords, new_coords,
                   original_volume, v_grid, v_decoded, v_volume, v_error, v_called>>
    /\ UNCHANGED v_frame

-----------------------------------------------------------------------------
(* The tensor functions, applied to arguments of every shape and value *)

FIdle ==
    /\ f_op = "none"
    /\ f_in = <<>>
    /\ f_out = <<>>

-----------------------------------------------------------------------------
(* reconsiren.py: the scatter-projection of decode_images_with_loss and of  *)
(* predict_step                                                             *)

Pixels == 0..(XSize - 1)

\* a coordinate of a projected position, in half pixels
HalfPixels == 0..(2 * (XSize - 1))

\* tf.round of a coordinate given in half pixels: halves go to the even pixel
Round(h) ==
    IF h % 2 = 0 THEN h \div 2
    ELSE LET below == (h - 1) \div 2
         IN IF below % 2 = 0 THEN below ELSE below + 1

\* bpos_round = tf.round(ro), of one point
BposRound(ro) == <<Round(ro[1]), Round(ro[2])>>

\* num = tf.reduce_sum((bpos_round - ro) ** 2, axis=-1), in quarters
Num(ro) ==
    LET d1 == 2 * Round(ro[1]) - ro[1]
        d2 == 2 * Round(ro[2]) - ro[2]
    IN d1 * d1 + d2 * d2

\* (mutation) a weight that falls short of 1 at a pixel centre
WeightShort(num) == Q(7788, 10000)

\* weight = tf.exp(-num / (2. * 1. ** 2.)), to four decimals, num in quarters
Weight(num) ==
    IF num = 0 THEN F(1)
    ELSE IF num = 1 THEN Q(8825, 10000)
    ELSE Q(7788, 10000)

\* tf.tensor_scatter_nd_add(imgs, bpos_flow, values) on an image of zeros
TensorScatterNdAdd(bpos_flow, values) ==
    [px \in Pixels \X Pixels |->
        FSum([i \in DOMAIN values |-> IF bpos_flow[i] = px THEN values[i] ELSE F(0)])]

\* lines 554-573 and 793-812: the image of the points at ro with the given values
ScatterProject(ro, values) ==
    LET weight == [i \in DOMAIN ro |-> Weight(Num(ro[i]))]
        bpos_flow == [i \in DOMAIN ro |-> BposRound(ro[i])]
        weighted == [i \in DOMAIN ro |-> FMul(F(values[i]), weight[i])]
    IN [weight |-> weight, imgs |-> TensorScatterNdAdd(bpos_flow, weighted)]

\* the projected positions of the first n points of the coordinate grid
RECURSIVE Projections(_)
Projections(n) ==
    IF n = 0 THEN {<<>>}
    ELSE {Append(ro, p) : ro \in Projections(n - 1), p \in HalfPixels \X HalfPixels}

FScatterProject ==
    /\ f_op = "none"
    /\ \E n \in Voxels, w \in 0..MaxUpdates :
        \E ro \in Projections(n) :
            LET values == [i \in 1..n |-> Corrected(DecoderDelta(w, FALSE))[i]]
            IN /\ f_op' = "scatter"
               /\ f_in' = [ro |-> ro, values |-> values]
               /\ f_out' = ScatterProject(ro, values)
    /\ UNCHANGED f_frame

-----------------------------------------------------------------------------
(* The dense grids: densitySmoothnessVolume (het_siren.py), eval_volume     *)
(* (reconsiren.py) and Decoder.eval_volume_het (het_siren.py)               *)

\* generator.indices of a coordinate grid: one cell per density value, no cell
\* twice
RECURSIVE IndexArrays(_)
IndexArrays(n) ==
    IF n = 0 THEN {<<>>}
    ELSE {Append(ix, c) : ix \in IndexArrays(n - 1), c \in Cells} \ 
         {Append(ix, ix[j]) : ix \in IndexArrays(n - 1), j \in 1..(n - 1)}

\* tf.tensor_scatter_nd_add(grid, indices, values) on a grid of zeros
ScatterAddGrid(indices, values) ==
    [c \in Cells |->
        SeqSum([i \in DOMAIN indices |-> IF indices[i] = c THEN values[i] ELSE 0])]

\* (mutation) the values are written along the mirrored axis
AssignGridMirrored(indices, values) ==
    [c \in Cells |->
        IF \E i \in DOMAIN indices : NVox + 2 - indices[i] = c
        THEN values[CHOOSE i \in DOMAIN indices : NVox + 2 - indices[i] = c]
        ELSE 0]

\* volume_grids[idx, o_z, o_y, o_x] = values[idx] on a grid of zeros: of the
\* entries that name a cell the last one stays
AssignGrid(indices, values) ==
    [c \in Cells |->
        LET named == {i \in DOMAIN indices : indices[i] = c}
        IN IF named = {} THEN 0
           ELSE values[CHOOSE i \in named : \A j \in named : j <= i]]

\* scipy's gaussian_filter(volume, sigma=1), borders reflected, at four times
\* its scale so that the values stay whole
GaussianFilter(grid) ==
    [c \in Cells |->
        grid[IF c = 1 THEN 1 ELSE c - 1] + 2 * grid[c]
            + grid[IF c = NVox + 1 THEN c ELSE c + 1]]

\* the delta a decoder can put out: none, or that of some weights
Deltas ==
    {[i \in Voxels |-> 0]} \cup
    {DecoderDelta(w, pos) : w \in 0..MaxUpdates, pos \in BOOLEAN}

\* densitySmoothnessVolume, lines 272-279: the grid the smoothness losses read
FDensityGrid ==
    /\ f_op = "none"
    /\ \E indices \in IndexArrays(NVox), delta \in Deltas :
        /\ f_op' = "density_grid"
        /\ f_in' = [indices |-> indices, delta |-> delta, filter |-> FALSE,
                    pos |-> FALSE]
        /\ f_out' = ScatterAddGrid(indices, Corrected(delta))
    /\ UNCHANGED f_frame

\* eval_volume of the multi-head AutoEncoder, lines 706-729
FEvalVolume ==
    /\ f_op = "none"
    /\ \E indices \in IndexArrays(NVox), delta \in Deltas, filter \in BOOLEAN :
        LET volumes == ScatterAddGrid(indices, Corrected(delta))
        IN /\ f_op' = "eval_volume"
           /\ f_in' = [indices |-> indices, delta |-> delta, filter |-> filter,
                       pos |-> FALSE]
           /\ f_out' = IF filter THEN GaussianFilter(volumes) ELSE volumes
    /\ UNCHANGED f_frame

\* eval_volume, line 712: the one network it calls, self.decoder_delta
EvalVolumeNetworks == {"decoder_delta"}

\* eval_volume of the multi-head AutoEncoder, lines 706-729, on the model
MEvalVolume ==
    /\ v_pc \in {"idle", "done", "raised"}
    /\ \E filter \in BOOLEAN :
          LET delta == DecoderDelta(m_w_dec, only_pos)
              volumes == ScatterAddGrid([i \in Voxels |-> Indices(i)], Corrected(delta))
          IN /\ v_args' = [NoArgs EXCEPT !.filter = filter]
             /\ v_volume' = <<IF filter THEN GaussianFilter(volumes) ELSE volumes>>
    /\ v_called' = EvalVolumeNetworks
    /\ v_entry_coords' = gen_coords
    /\ prev_coords' = 0
    /\ new_coords' = <<>>
    /\ original_volume' = "None"
    /\ v_grid' = <<>>
    /\ v_decoded' = <<>>
    /\ v_error' = "none"
    /\ v_pc' = "done"
    /\ UNCHANGED <<gen_step, gen_coords>>
    /\ UNCHANGED v_frame

VNext == VEvalCall \/ VEvalCoords \/ VEvalReturn \/ MEvalVolume

\* Decoder.eval_volume_het, lines 578-610, on one latent vector
FEvalVolumeHet ==
    /\ f_op = "none"
    /\ \E indices \in IndexArrays(NVox), delta \in Deltas, filter, pos \in BOOLEAN :
        LET grid == AssignGrid(indices, Corrected(delta))
        IN /\ f_op' = "eval_volume_het"
           /\ f_in' = [indices |-> indices, delta |-> delta, filter |-> filter,
                       pos |-> pos]
           /\ f_out' = Thresholded(IF filter THEN FilterVol(grid) ELSE grid, pos)
    /\ UNCHANGED f_frame

-----------------------------------------------------------------------------
(* The guarded divisions: the loss mask of het_siren.py train_step and      *)
(* correlation_coefficient_loss of reconsiren.py                            *)

\* (mutation) the plain division
DivideWithNan(x, y) == FDiv(x, y)

\* tf.math.divide_no_nan(x, y): 0 wherever y is 0
DivideNoNan(x, y) ==
    IF y.k = "num" /\ y.n = 0 THEN F(0) ELSE FDiv(x, y)

FAbs(x) == IF x.k = "num" THEN Q(Abs(x.n), x.d) ELSE IF x.k = "inf" THEN Inf(1) ELSE NaN

FNeg(x) == IF x.k = "nan" THEN NaN ELSE [x EXCEPT !.n = -x.n]

\* the largest r in lo..hi with r * r <= n
RECURSIVE ISqrtIn(_, _, _)
ISqrtIn(n, lo, hi) ==
    IF lo = hi THEN lo
    ELSE LET mid == (lo + hi + 1) \div 2
         IN IF mid * mid <= n THEN ISqrtIn(n, mid, hi) ELSE ISqrtIn(n, lo, mid - 1)

\* tf.sqrt(v + 1e-6) to three decimals, v >= 0: 0.001 at v = 0
SqrtPlusEps(v) ==
    IF v.k # "num" THEN v
    ELSE IF v.n < 0 THEN NaN
    ELSE IF v.n = 0 THEN Q(1, 1000)
    ELSE Q(ISqrtIn((v.n * 1000000) \div v.d, 0, 46340), 1000)

\* a row of image pixels with values of the given set
RECURSIVE Rows(_, _)
Rows(n, values) ==
    IF n = 0 THEN {<<>>}
    ELSE {Append(row, v) : row \in Rows(n - 1, values), v \in values}

\* mask_imgs = tf.abs(mask_imgs); tf.math.divide_no_nan(mask_imgs, mask_imgs)
LossMask(mask_imgs) ==
    [i \in DOMAIN mask_imgs |->
        LET m == FAbs(F(mask_imgs[i])) IN DivideNoNan(m, m)]

\* tf.reduce_mean of an integer row
ReduceMean(row) == FDiv(F(SeqSum(row)), F(Len(row)))

\* correlation_coefficient_loss, lines 292-315, of one pair of images
CorrelationCoefficientLoss(y_true, y_pred) ==
    LET mean_true == ReduceMean(y_true)
        mean_pred == ReduceMean(y_pred)
        y_true_centered == [i \in DOMAIN y_true |-> FAdd(F(y_true[i]), FNeg(mean_true))]
        y_pred_centered == [i \in DOMAIN y_pred |-> FAdd(F(y_pred[i]), FNeg(mean_pred))]
        covariance ==
            FSum([i \in DOMAIN y_true |-> FMul(y_true_centered[i], y_pred_centered[i])])
        variance_true ==
            FSum([i \in DOMAIN y_true |-> FMul(y_true_centered[i], y_true_centered[i])])
        variance_pred ==
            FSum([i \in DOMAIN y_pred |-> FMul(y_pred_centered[i], y_pred_centered[i])])
        correlation_coefficient ==
            DivideNoNan(covariance, SqrtPlusEps(FMul(variance_true, variance_pred)))
    IN [coefficient |-> correlation_coefficient,
        loss |-> FAdd(F(1), FNeg(correlation_coefficient))]

\* train_step of het_siren.py, lines 726-729 and 735-737: the mask of the loss
FLossMask ==
    /\ f_op = "none"
    /\ \E mask_imgs \in Rows(XSize, {-1, 0, 2}) :
        /\ f_op' = "loss_mask"
        /\ f_in' = mask_imgs
        /\ f_out' = LossMask(mask_imgs)
    /\ UNCHANGED f_frame

FCorrelationLoss ==
    /\ f_op = "none"
    /\ \E y_true, y_pred \in Rows(XSize, {0, 1, 2}) :
        /\ f_op' = "correlation"
        /\ f_in' = [y_true |-> y_true, y_pred |-> y_pred]
        /\ f_out' = CorrelationCoefficientLoss(y_true, y_pred)
    /\ UNCHANGED f_frame

-----------------------------------------------------------------------------
(* reconsiren.py: the regularisers of decode_images_with_loss *)

\* a 3-vector block of the rows a head encoder puts out: of squared norm 0, 1, 2
Blocks == {<<0, 0, 0>>, <<1, 0, 0>>, <<0, 1, 0>>, <<1, 1, 0>>}

\* the 6 numbers a head encoder puts out for one image
PoseRows == {b1 \o b2 : b1 \in Blocks, b2 \in Blocks}

RECURSIVE RowsOfBatch(_)
RowsOfBatch(B) ==
    IF B = 0 THEN {<<>>}
    ELSE {Append(rows, r) : rows \in RowsOfBatch(B - 1), r \in PoseRows}

\* tf.reduce_sum(tf.square(v), axis=-1)
SquaredNorm(v) == SeqSum([i \in DOMAIN v |-> v[i] * v[i]])

\* lines 597-599: n1, n2 and x, the term one candidate adds to u_norm_loss
UnitNormTerm(rows) ==
    LET n1 == [b \in DOMAIN rows |-> SquaredNorm(SubSeq(rows[b], 1, 3))]
        n2 == [b \in DOMAIN rows |-> SquaredNorm(SubSeq(rows[b], 4, 6))]
    IN FMul(Q(1, 2), FAdd(ReduceMean(n1), ReduceMean(n2)))

\* decode_images_with_loss, lines 596-600, for the rows of one candidate
FUnitNorm ==
    /\ f_op = "none"
    /\ \E B \in 1..MaxBatch : \E rows \in RowsOfBatch(B) :
        /\ f_op' = "unit_norm"
        /\ f_in' = rows
        /\ f_out' = UnitNormTerm(rows)
    /\ UNCHANGED f_frame

\* a row of generator.coords: the position of a voxel relative to the centre
Coords == {<<0, 0, 0>>, <<1, 0, 0>>, <<-1, 1, 0>>}

\* the values a voxel of the corrected density can have, values[0][i]
Densities == {-1, 0, 1}

\* the densities (one volume of N voxels) and the coordinates (N rows) of a grid
RECURSIVE Grids(_)
Grids(N) ==
    IF N = 0 THEN {[volume |-> <<>>, coords |-> <<>>]}
    ELSE {[volume |-> Append(g.volume, v), coords |-> Append(g.coords, c)] :
              g \in Grids(N - 1), v \in Densities, c \in Coords}

\* l1_distance_norm, lines 318-323; volumes has one row per volume, coords one
\* row of three numbers per voxel, so that tf.shape(coords)[1] is the length
\* of a row of coords
L1DistanceNorm(volumes, coords) ==
    LET total_mass == [b \in DOMAIN volumes |->
                          SeqSum([i \in DOMAIN volumes[b] |-> Abs(volumes[b][i])])]
        r == [i \in DOMAIN coords |-> SquaredNorm(coords[i])]
        l1_dist == [b \in DOMAIN volumes |->
                       SeqSum([i \in DOMAIN volumes[b] |-> Abs(r[i] * volumes[b][i])])]
    IN [b \in DOMAIN volumes |->
           FDiv(FMul(Q(1, 100), F(l1_dist[b])),
                FMul(F(Len(coords[1])), F(total_mass[b])))]

\* decode_images_with_loss, lines 613-616: values has a leading dimension of 1
FL1DistanceNorm ==
    /\ f_op = "none"
    /\ \E N \in 1..NVox : \E g \in Grids(N) :
        /\ f_op' = "l1_distance_norm"
        /\ f_in' = [volumes |-> <<g.volume>>, coords |-> g.coords]
        /\ f_out' = L1DistanceNorm(<<g.volume>>, g.coords)
    /\ UNCHANGED f_frame

-----------------------------------------------------------------------------
(* The multi-resolution term of the two models and their blur filter banks *)

\* create_blur_filters(num_filters, ...): one filter per requested channel
CreateBlurFilters(num_filters) == [i \in 1..num_filters |-> [channel |-> i]]

\* het_siren.py, AutoEncoder.__init__, lines 635-638: self.filters of a model
\* built with multires_levels levels
HetFilters(multires_levels) == CreateBlurFilters(multires_levels)

\* reconsiren.py, AutoEncoder.__init__: lines 454-457 build the bank from
\* multires, line 473 assigns self.filters again, whatever multires is
MHFilters(multires) == CreateBlurFilters(3)

\* the values the cost function takes on one pair of images
LossValues == {1, 3}

\* the costs of the blurred channels, one per filter of a bank
RECURSIVE ChannelLosses(_)
ChannelLosses(n) ==
    IF n = 0 THEN {<<>>}
    ELSE {Append(c, v) : c \in ChannelLosses(n - 1), v \in LossValues}

\* the loop over range(levels): the costs of channels 0..levels-1
LevelLosses(levels, channels) == [idx \in 1..levels |-> F(channels[idx])]

OutOfBounds == [error |-> "out of bounds", loss |-> NaN]

Loss(x) == [error |-> "none", loss |-> x]

\* (mutation) the level losses are added and the sum is not averaged
MultiresLossNotAveraged(enabled, loss_0, levels, channels) ==
    IF ~enabled THEN Loss(F(loss_0))
    ELSE IF levels > Len(channels) THEN OutOfBounds
    ELSE Loss(FAdd(F(loss_0), FSum(LevelLosses(levels, channels))))

\* het_siren.py, train_step lines 746-753 and test_step lines 860-867:
\* loss_het_ori after the multi-resolution term
MultiresLossHet(enabled, loss_0, levels, channels) ==
    IF ~enabled THEN Loss(F(loss_0))
    ELSE IF levels > Len(channels) THEN OutOfBounds
    ELSE Loss(FDiv(FAdd(F(loss_0), FSum(LevelLosses(levels, channels))),
                   F(levels + 1)))

\* reconsiren.py, decode_images_with_loss lines 583-590: what one symmetry
\* copy adds to loss_rec
MultiresLossMH(enabled, loss_0, levels, channels) ==
    IF ~enabled THEN Loss(F(loss_0))
    ELSE IF levels > Len(channels) THEN OutOfBounds
    ELSE Loss(FAdd(F(loss_0),
                   FMul(Q(1, 1000), FSum(LevelLosses(levels, channels)))))

\* the multi-resolution term of a heterogeneity model built with multires_levels
\* = None (enabled = FALSE) or with a number of levels
FMultiresHet ==
    /\ f_op = "none"
    /\ \E enabled \in BOOLEAN, loss_0 \in LossValues :
       \E levels \in IF enabled THEN 1..MaxLevels ELSE {0} :
       \E channels \in IF enabled THEN ChannelLosses(Len(HetFilters(levels))) ELSE {<<>>} :
        /\ f_op' = "multires_het"
        /\ f_in' = [enabled |-> enabled, loss_0 |-> loss_0, levels |-> levels,
                    channels |-> channels]
        /\ f_out' = MultiresLossHet(enabled, loss_0, levels, channels)
    /\ UNCHANGED f_frame

\* the multi-resolution term of a multi-head model built with multires = None
\* (enabled = FALSE) or with a number of levels
FMultiresMH ==
    /\ f_op = "none"
    /\ \E enabled \in BOOLEAN, loss_0 \in LossValues :
       \E levels \in IF enabled THEN 1..MaxLevels ELSE {0} :
       \E channels \in ChannelLosses(Len(MHFilters(levels))) :
        /\ f_op' = "multires_mh"
        /\ f_in' = [enabled |-> enabled, loss_0 |-> loss_0, levels |-> levels,
                    channels |-> channels]
        /\ f_out' = MultiresLossMH(enabled, loss_0, levels, channels)
    /\ UNCHANGED f_frame

-----------------------------------------------------------------------------
(* The uniform distribution penalty of the multi-head model *)

\* r[..., -1] of one image: the last column of a rotation matrix
Directions == {<<1, 0, 0>>, <<-1, 0, 0>>}

\* the last columns of the rotations of a batch of B images
RECURSIVE VectorsOfBatch(_)
VectorsOfBatch(B) ==
    IF B = 0 THEN {<<>>}
    ELSE {Append(vs, v) : vs \in VectorsOfBatch(B - 1), v \in Directions}

\* the vectors of each of n candidates, for a batch of B images
RECURSIVE VectorsOfCandidates(_, _)
VectorsOfCandidates(n, B) ==
    IF n = 0 THEN {<<>>}
    ELSE {Append(cs, vs) : cs \in VectorsOfCandidates(n - 1, B), vs \in VectorsOfBatch(B)}

\* one entry of tf.matmul(vectors, vectors, transpose_b=True)
Dot(u, v) == SeqSum([i \in DOMAIN u |-> u[i] * v[i]])

\* tf.acos of the cosine clipped to [-1 + 1e-7, 1 - 1e-7], for the cosines
\* unit vectors produce, rounded to rationals: acos(1 - 1e-7) is 4e-4, acos(0)
\* is 1.5624 and acos(-1 + 1e-7) is 3.1249
SafeAcos(c) ==
    IF c >= 1 THEN Q(4, 10000)
    ELSE IF c <= -1 THEN Q(31249, 10000)
    ELSE Q(15624, 10000)

Epsilon == Q(1, 10000)

\* the pairs (i, j) of a B x B matrix in row order
Pairs(B) == [p \in 1..(B * B) |-> <<((p - 1) \div B) + 1, ((p - 1) % B) + 1>>]

\* repulsion * (1.0 - tf.eye(batch_size)), as a flat sequence
MaskedRepulsion(vectors) ==
    LET B == Len(vectors)
    IN [p \in 1..(B * B) |->
          LET i == Pairs(B)[p][1]
              j == Pairs(B)[p][2]
              repulsion == FDiv(F(1), FAdd(SafeAcos(Dot(vectors[i], vectors[j])), Epsilon))
          IN FMul(repulsion, F(IF i = j THEN 0 ELSE 1))]

\* uniform_distribution_loss
UniformDistributionLoss(vectors) ==
    LET B == Len(vectors)
    IN FDiv(FSum(MaskedRepulsion(vectors)), FMul(F(B), FAdd(F(B), F(-1))))

UdLambda == Q(1, 1000000)

\* decode_images_with_loss: the penalty is summed over the candidates, divided
\* by n_candidates and added, times ud_lambda, to the loss that is returned
LossWithUniformDist(loss_rec, candidates) ==
    LET xs == [c \in DOMAIN candidates |-> UniformDistributionLoss(candidates[c])]
        uniform_dist_loss == FDiv(FSum(xs), F(Len(candidates)))
    IN [uniform_dist_loss |-> uniform_dist_loss,
        loss |-> FAdd(loss_rec, FMul(UdLambda, uniform_dist_loss))]

FUniformDist ==
    /\ f_op = "none"
    /\ \E B \in 1..MaxBatch : \E candidates \in VectorsOfCandidates(NCand, B) :
       \E loss_rec \in LossValues :
        /\ f_op' = "uniform_dist"
        /\ f_in' = [B |-> B, candidates |-> candidates, loss_rec |-> loss_rec]
        /\ f_out' = LossWithUniformDist(F(loss_rec), candidates)
    /\ UNCHANGED f_frame

-----------------------------------------------------------------------------
(* The density the multi-head model renders its candidates from *)

\* delta of predict_step, line 763: self.decoder_delta(o) in every mode
PredictDelta(w, pos, pose) == DecoderDelta(w, pos)

\* values = original_values + delta, lines 557-559 of decode_images_with_loss
\* and 796-798 of predict_step, for a model with decoder weights w
FDensity ==
    /\ f_op = "none"
    /\ \E w \in 0..MaxUpdates, pos \in BOOLEAN, pose \in BOOLEAN :
        /\ f_op' = "density"
        /\ f_in' = [w |-> w, only_pos |-> pos, only_pose |-> pose]
        /\ f_out' = [decode_images_with_loss |-> Corrected(DecodeDelta(w, pos, pose)),
                     predict_step |-> Corrected(PredictDelta(w, pos, pose))]
    /\ UNCHANGED f_frame

-----------------------------------------------------------------------------
(* The total loss of the train and test steps of the heterogeneity model *)

\* self.tv_lambda and self.mse_lambda (defaults 0.5)
HetTvLambda == Q(1, 2)

HetMseLambda == Q(1, 2)

\* the values densitySmoothnessVolume can return for tv_loss and d_mse_loss
SmoothnessValues == {0, 1}

\* lines 702-703 and 821-822: the L1 penalty of the corrected density
HetL1Loss(delta_het) ==
    LET sums == [b \in DOMAIN delta_het |->
                    SeqSum([v \in Voxels |-> Abs(delta_het[b][v])])]
    IN FDiv(FMul(HetL1Lambda, ReduceMean(sums)), F(NVox))

\* train_step, lines 701-717 and 755-759
TrainTotalLoss(rec_loss, delta_het, tv, d_mse, pos) ==
    LET l1_loss_het == HetL1Loss(delta_het)
        tv_loss == FMul(F(tv), HetTvLambda)
        d_mse_loss == FMul(F(d_mse), HetMseLambda)
        neg_loss_het == TrainNegLoss(delta_het)
        reg_loss == FAdd(FAdd(FAdd(l1_loss_het, neg_loss_het), tv_loss), d_mse_loss)
    IN FAdd(FMul(Q(1, 2), rec_loss), FMul(Q(1, 2), reg_loss))

\* test_step, lines 819-838 and 869-873
TestTotalLoss(rec_loss, delta_het, tv, d_mse, pos) ==
    LET l1_loss_het == HetL1Loss(delta_het)
        neg_loss_het == TestNegLoss(delta_het, pos)
        reg_loss == FAdd(l1_loss_het, neg_loss_het)
    IN FAdd(FMul(Q(1, 2), rec_loss), FMul(Q(1, 2), reg_loss))

\* the total losses the two steps compute for one batch, the same weights and
\* the same configuration
FHetTotalLoss ==
    /\ f_op = "none"
    /\ \E indexes \in Batches, w \in 0..MaxUpdates, pos \in BOOLEAN :
       \E rec_loss \in LossValues, tv \in SmoothnessValues, d_mse \in SmoothnessValues :
        LET delta_het == CorrectedHet(w, indexes)
        IN /\ f_op' = "het_total"
           /\ f_in' = [delta_het |-> delta_het, only_pos |-> pos, rec_loss |-> rec_loss,
                       tv |-> tv, d_mse |-> d_mse]
           /\ f_out' = [train_step |-> TrainTotalLoss(F(rec_loss), delta_het, tv, d_mse, pos),
                        test_step |-> TestTotalLoss(F(rec_loss), delta_het, tv, d_mse, pos)]
    /\ UNCHANGED f_frame

FNext ==
    \/ FHetTotalLoss
    \/ FDensity
    \/ FUniformDist
    \/ FMultiresHet
    \/ FMultiresMH
    \/ FL1DistanceNorm
    \/ FUnitNorm
    \/ FScatterProject
    \/ FDensityGrid
    \/ FEvalVolume
    \/ FEvalVolumeHet
    \/ FLossMask
    \/ FCorrelationLoss

-----------------------------------------------------------------------------
(* het_siren.py: the steps of one model instance run by two threads, each   *)
(* step split where it writes the generator fields (lines 662-687) and      *)
(* where its forward pass reads them (lines 689-706)                        *)

Threads == {1, 2}

Other(t) == IF t = 1 THEN 2 ELSE 1

NoRead == [indexes |-> <<>>, rot |-> <<>>, tilt |-> <<>>, psi |-> <<>>,
           shifts |-> <<>>, ctf |-> <<>>]

CIdle ==
    /\ c_pc = [t \in Threads |-> "idle"]
    /\ c_indexes = [t \in Threads |-> <<>>]
    /\ c_read = [t \in Threads |-> NoRead]
    /\ c_overlap = [t \in Threads |-> FALSE]

\* lines 652-687: a thread starts a step and writes the fields of its batch
CPrepare(t) ==
    /\ c_pc[t] \in {"idle", "done"}
    /\ \E indexes \in Batches :
        LET idx == GatherIndexes(indexes)
        IN /\ c_indexes' = [c_indexes EXCEPT ![t] = indexes]
           /\ g_indexes' = indexes
           /\ g_current_images' = ImagesOf(indexes)
           /\ rot_batch' = Gather(AngleRot, idx)
           /\ tilt_batch' = Gather(AngleTilt, idx)
           /\ psi_batch' = Gather(AnglePsi, idx)
           /\ shifts_batch' = <<Gather(ShiftX, idx), Gather(ShiftY, idx)>>
           /\ g_ctf' = ComputeCTF(Gather(Defocus, idx), Len(indexes))
    /\ c_pc' = [c_pc EXCEPT ![t] = "prepared"]
    /\ c_read' = [c_read EXCEPT ![t] = NoRead]
    /\ c_overlap' = IF c_pc[Other(t)] = "prepared"
                    THEN [u \in Threads |-> TRUE]
                    ELSE [c_overlap EXCEPT ![t] = FALSE]
    /\ UNCHANGED g_CTF
    /\ UNCHANGED c_frame

\* lines 689-706: the Wiener filter and the forward pass of the thread's step
\* read generator.ctf and the pose and shift fields
CForward(t) ==
    /\ c_pc[t] = "prepared"
    /\ c_read' = [c_read EXCEPT ![t] =
                     [indexes |-> g_indexes, rot |-> rot_batch, tilt |-> tilt_batch,
                      psi |-> psi_batch, shifts |-> shifts_batch, ctf |-> g_ctf]]
    /\ c_pc' = [c_pc EXCEPT ![t] = "done"]
    /\ UNCHANGED <<c_indexes, c_overlap>>
    /\ UNCHANGED g_vars
    /\ UNCHANGED c_frame

CNext == \E t \in Threads : CPrepare(t) \/ CForward(t)

-----------------------------------------------------------------------------
(* Specifications: one per operation under study; the state of the other   *)
(* operations stays as constructed.                                        *)

\* the multi-head predict_step, run on batch after batch
PSpecInit ==
    MHDefault /\ MFresh /\ MIdle
    /\ PInit /\ CIdle /\ FIdle /\ DIdle /\ HetDefault /\ HIdle /\ HFresh /\ VDefault /\ VIdle

PSpec == PSpecInit /\ [][PNext]_vars

\* decode_images_with_loss, run on batch after batch, for every configuration
DSpecInit ==
    MHConfig /\ MLoaded /\ MIdle /\ DIdle
    /\ PInit /\ CIdle /\ FIdle /\ HetDefault /\ HIdle /\ HFresh /\ VDefault /\ VIdle

DSpec == DSpecInit /\ [][DNext]_vars

\* the steps of the heterogeneity AutoEncoder, for every configuration
HSpecInit ==
    HetConfig /\ HIdle /\ MHDefault /\ MFresh /\ MIdle
    /\ PInit /\ CIdle /\ FIdle /\ DIdle /\ HFresh /\ VDefault /\ VIdle

HSpec == HSpecInit /\ [][HNext]_vars

\* training: the train steps of a multi-head model of every configuration and
\* of a heterogeneity model
HTrainNext == HTrainPrepare \/ HWiener \/ HTrainLoss \/ HTrainApply \/ HRaise

TSpecInit ==
    MHConfig /\ MFresh /\ MIdle
    /\ PInit /\ CIdle /\ FIdle /\ DIdle /\ HetDefault /\ HIdle /\ HFresh /\ VDefault /\ VIdle

TNext == MTrainNext \/ HTrainNext

TSpec == TSpecInit /\ [][TNext]_vars

\* the train and test steps of a multi-head model of every configuration
MSpecInit == TSpecInit

MSpec == MSpecInit /\ [][MNext]_vars

\* AutoEncoder.__init__, line 622: the model is built with CTF="wiener" or not
CTFConfig ==
    /\ h_only_pos = TRUE
    /\ h_wiener \in BOOLEAN
    /\ h_refPose = TRUE

\* one process, which steps the one model it built: a heterogeneity model of
\* either CTF mode (train, test and predict steps, eval_encoder) or a
\* multi-head model (the batches of its train steps)
HetBuilt == m_batch.pc = "idle"

MultiHeadBuilt == h_pc = "idle"

BSpecInit ==
    /\ CTFConfig /\ MHDefault
    /\ HIdle /\ HFresh /\ MFresh /\ MIdle
    /\ PInit /\ CIdle /\ FIdle /\ DIdle /\ VDefault /\ VIdle

BNext ==
    \/ HetBuilt /\ HTrainPrepare
    \/ HetBuilt /\ HTestPrepare
    \/ HetBuilt /\ HPredictCall
    \/ HetBuilt /\ HPredictPrepare
    \/ HetBuilt /\ HEvalEncoderCall
    \/ HetBuilt /\ HWiener
    \/ HetBuilt /\ HTrainLoss
    \/ HetBuilt /\ HTrainApply
    \/ HetBuilt /\ HTestLoss
    \/ HetBuilt /\ HPredictDispatch
    \/ HetBuilt /\ HEvalEncoderReturn
    \/ HetBuilt /\ HRaise
    \/ MultiHeadBuilt /\ MBatchPrepare
    \/ MultiHeadBuilt /\ MBatchWiener
    \/ MultiHeadBuilt /\ MBatchDecode

BSpec == BSpecInit /\ [][BNext]_vars

\* the evaluation of volumes by a heterogeneity model, for every generator
VSpecInit ==
    VConfig /\ VIdle /\ HetDefault /\ HLoaded /\ HIdle /\ MHDefault /\ MFresh /\ MIdle
    /\ PInit /\ CIdle /\ FIdle /\ DIdle

VSpec == VSpecInit /\ [][VNext]_vars

\* the tensor functions on their own
FSpecInit ==
    FIdle /\ VDefault /\ VIdle /\ HetDefault /\ HFresh /\ HIdle /\ MHDefault /\ MFresh /\ MIdle
    /\ PInit /\ CIdle /\ DIdle

FSpec == FSpecInit /\ [][FNext]_vars

\* two threads stepping one heterogeneity model, in every interleaving
CSpecInit ==
    CIdle /\ FIdle /\ VDefault /\ VIdle /\ HetDefault /\ HFresh /\ HIdle /\ MHDefault /\ MFresh
    /\ MIdle /\ DIdle
    /\ PInit

CSpec == CSpecInit /\ [][CNext]_vars

-----------------------------------------------------------------------------
(* Claims: the multi-head predict_step *)

\* the smallest of the losses the K candidates got for batch element b
MinCandLoss(b) ==
    CHOOSE m \in {p_loss[k][b] : k \in 1..NCand} :
        \A k \in 1..NCand : m <= p_loss[k][b]

\* the candidates whose loss for batch element b is the minimum
ArgMinCands(b) == {k \in 1..NCand : p_loss[k][b] = MinCandLoss(b)}

\* C1 (as claimed): when predict_step returns, for every batch element the kept
\* rotation, shift and image are those of one candidate whose loss is the
\* minimum of all K candidate losses; never a blend, never the zero placeholder.
C1_KeptIsGlobalMin ==
    p_pc = "done" =>
        \A b \in Batch(p_B) :
            \E k \in ArgMinCands(b) :
                keep_r[b] = k /\ keep_shifts[b] = k /\ keep_imgs[b] = k

-----------------------------------------------------------------------------
(* Claims: decode_images_with_loss *)

\* C2 (as claimed): for every batch element the reconstruction term of the
\* returned loss is the minimum over all candidates of the candidate's
\* symmetry-averaged loss, and the running value never increased on the way.
C2_RecTermIsCandidateMin ==
    d_pc = "done" =>
        \A b \in Batch(d_B) :
            /\ \E k \in 1..NCand : d_loss_rec[b] = d_cand[k][b]
            /\ \A k \in 1..NCand : FLe(d_loss_rec[b], d_cand[k][b])

-----------------------------------------------------------------------------
(* Claims: the steps of the heterogeneity AutoEncoder *)

SupportedModes == {"het", "particles"}

\* C3: a predict with a predict_mode other than "het" or "particles" ends every
\* step in an error: the step never completes, returns no encoder output and
\* no decoded image, and is never served as one of the supported modes.
C3_UnknownModeRaises ==
    (h_kind = "predict" /\ predict_mode \notin SupportedModes) =>
        /\ h_out = NoOut
        /\ h_pc # "done"
        /\ (h_pc = "raised" => h_error \in {"ValueError", "OpError"})

\* C3 witness: a predict step of an unknown mode reached the dispatch and raised.
C3_Witness ==
    /\ h_kind = "predict"
    /\ predict_mode = "volume"
    /\ h_pc = "raised"
    /\ h_error = "ValueError"

HetPrepared == h_pc \in {"prepared", "filtered", "loss", "done", "raised"}

\* C7: after batch preparation in train, test and predict steps, rot_batch,
\* tilt_batch, psi_batch, shifts_batch and ctf were all gathered with the index
\* array stored in generator.indexes, and each has one entry per image of the
\* batch, whatever the size of the batch.
C7_FieldsGatheredWithStoredIndexes ==
    HetPrepared =>
        /\ rot_batch = Gather(AngleRot, g_indexes)
        /\ tilt_batch = Gather(AngleTilt, g_indexes)
        /\ psi_batch = Gather(AnglePsi, g_indexes)
        /\ shifts_batch = <<Gather(ShiftX, g_indexes), Gather(ShiftY, g_indexes)>>
        /\ g_ctf = [i \in DOMAIN g_indexes |-> [ctf_of |-> Defocus[g_indexes[i]]]]
        /\ \A field \in {rot_batch, tilt_batch, psi_batch, shifts_batch[1],
                         shifts_batch[2]} :
               Len(field) = Len(g_current_images)
        /\ Len(g_ctf) = Len(g_current_images)

\* C7 witness: a predict step prepared a batch smaller than the batch size,
\* holding the last particle only.
C7_Witness ==
    /\ h_pc = "prepared"
    /\ h_kind = "predict"
    /\ Len(g_current_images) = 1
    /\ g_indexes[1] = NPart

\* C8 (as claimed): whenever every entry of the corrected density is
\* non-negative, the negative-density penalty of the train and test steps is
\* exactly 0, a defined number.
C8_NegPenaltyZero ==
    ( /\ h_kind \in {"train", "test"}
      /\ h_values # <<>>
      /\ \A b \in DOMAIN h_values : \A v \in Voxels : h_values[b][v] >= 0 )
    => h_neg_loss = F(0)

-----------------------------------------------------------------------------
(* Claims: training *)

\* the apply_gradients calls of a step that update parameter group g
CallsOn(applied, g) == {i \in DOMAIN applied : g \in applied[i].groups}

\* the optimizers that updated parameter group g in a step
OptimizersOn(applied, g) == {applied[i].optimizer : i \in CallsOn(applied, g)}

\* the apply_gradients calls of a step made on one optimizer
CallsOf(applied, o) == {i \in DOMAIN applied : applied[i].optimizer = o}

\* C5: in pose-only mode the decoder's weights and the decoder optimizer's state
\* never change (d_optimizer.apply_gradients is never called), while every
\* completed train step applied the encoder optimizer.
C5_PoseOnlyLeavesDecoder ==
    only_pose =>
        /\ m_w_dec = 0
        /\ m_d_opt = 0
        /\ CallsOf(m_applied, "d_optimizer") = {}
        /\ (m_pc = "done" /\ m_kind = "train") =>
               /\ Cardinality(CallsOf(m_applied, "e_optimizer")) = 1
               /\ m_e_opt = m_start[1] + 1

\* C5 witness: a pose-only train step completed.
C5_Witness ==
    /\ only_pose
    /\ m_pc = "done"
    /\ m_kind = "train"
    /\ m_w_enc = MaxUpdates

Groups == {"encoder", "decoder"}

\* C6 (as claimed): in every completed train step each parameter group is
\* updated by exactly one apply_gradients call of exactly one optimizer.
C6_ExactlyOneCallPerGroup ==
    /\ (m_pc = "done" /\ m_kind = "train") =>
           \A g \in Groups : Cardinality(CallsOn(m_applied, g)) = 1
    /\ (h_pc = "done" /\ h_kind = "train") =>
           \A g \in Groups : Cardinality(CallsOn(h_applied, g)) = 1

\* C6 (amended): in every train step each parameter group is updated by at most
\* one apply_gradients call, of one optimizer; in a completed step the encoder
\* weights by exactly one, and the decoder weights by exactly one except in the
\* pose-only mode of the multi-head model, where by none.  Every optimizer's
\* state advances once per call made on it, so a step that raises before any
\* gradient application leaves the optimizers as they were.
C6_AtMostOneCallPerGroup ==
    /\ \A g \in Groups :
           /\ Cardinality(CallsOn(m_applied, g)) <= 1
           /\ Cardinality(OptimizersOn(m_applied, g)) <= 1
           /\ Cardinality(CallsOn(h_applied, g)) <= 1
           /\ Cardinality(OptimizersOn(h_applied, g)) <= 1
    /\ (m_pc = "done" /\ m_kind = "train") =>
           /\ Cardinality(CallsOn(m_applied, "encoder")) = 1
           /\ Cardinality(CallsOn(m_applied, "decoder")) = (IF only_pose THEN 0 ELSE 1)
    /\ (h_pc = "done" /\ h_kind = "train") =>
           \A g \in Groups : Cardinality(CallsOn(h_applied, g)) = 1
    /\ m_e_opt = m_start[1] + Cardinality(CallsOf(m_applied, "e_optimizer"))
    /\ m_d_opt = m_start[2] + Cardinality(CallsOf(m_applied, "d_optimizer"))
    /\ h_opt = h_start + Cardinality(CallsOf(h_applied, "optimizer"))
    /\ (m_pc = "raised" /\ m_applied = <<>>) => <<m_e_opt, m_d_opt>> = m_start
    /\ (h_pc = "raised" /\ h_applied = <<>>) => h_opt = h_start

\* C6 witness: a step of each model completed (the multi-head one in pose-only
\* mode), and a multi-head step raised before its first gradient application.
C6_Witness ==
    /\ only_pose
    /\ m_pc = "raised"
    /\ m_grads # <<>>
    /\ m_applied = <<>>
    /\ h_pc = "done"
    /\ h_kind = "train"

-----------------------------------------------------------------------------
(* Claims: the evaluation of volumes *)

\* C4: for every allCoords flag and every generator step, when
\* AutoEncoder.eval_volume_het returns, generator.coords is the coordinate set
\* it was when the call started.
C4_CoordsRestored ==
    v_pc = "done" => gen_coords = v_entry_coords

\* C4 witness: a call with allCoords on a generator of step > 1 returned after
\* its loop had left another coordinate set in generator.coords.
C4_Witness ==
    /\ v_pc = "done"
    /\ v_args.allCoords
    /\ gen_step > 1
    /\ v_entry_coords # GetAllCoordsMask(gen_step)[gen_step]
    /\ prev_coords = v_entry_coords

Max0(v) == IF v >= 0 THEN v ELSE 0

\* C9: Decoder.eval_volume_het returns, with only_pos = True, max(v, 0) for
\* every voxel v of the (optionally filtered) grid, which is >= 0; with
\* only_pos = False, the (optionally filtered) grid voxel for voxel.
C9_ThresholdOrAddBack ==
    v_decoded # <<>> =>
        \A b \in DOMAIN v_decoded : \A c \in Cells :
            IF v_args.only_pos
            THEN /\ v_decoded[b][c] >= 0
                 /\ v_decoded[b][c] = Max0(v_grid[b][c])
            ELSE v_decoded[b][c] = v_grid[b][c]

\* C9 witness: a filtered grid with a negative voxel went through the decoder
\* with only_pos = False.
C9_Witness ==
    /\ v_decoded # <<>>
    /\ ~v_args.only_pos
    /\ v_args.filter
    /\ \E b \in DOMAIN v_grid : \E c \in Cells : v_grid[b][c] < 0
    /\ \E b \in DOMAIN v_grid : \E c \in Cells : v_grid[b][c] > 0

\* what the call with add_to_original = False returns for the arguments and
\* the generator of the running call: the decoder's volume, once per
\* coordinate set visited
VolumeWithoutOriginal ==
    LET visited == IF v_args.allCoords /\ gen_step > 1 THEN gen_step ELSE 1
        decoded == DecoderEvalVolumeHet(h_weights, v_args.x_het, v_args.filter,
                                        v_args.only_pos)
    IN [b \in DOMAIN v_args.x_het |-> [c \in Cells |-> visited * decoded[b][c]]]

\* C10: a call of AutoEncoder.eval_volume_het with add_to_original = True while
\* volume.mrc does not exist ends without an error and returns the volume of
\* the call with add_to_original = False.
C10_MissingOriginalIsNoError ==
    (v_args.add_to_original /\ ~v_args.exists) =>
        /\ v_error = "none"
        /\ v_pc # "raised"
        /\ original_volume = "None"
        /\ v_pc = "done" => v_volume = VolumeWithoutOriginal

\* C10 witness: such a call returned a volume that is not empty.
C10_Witness ==
    /\ v_pc = "done"
    /\ v_args.add_to_original
    /\ ~v_args.exists
    /\ \E b \in DOMAIN v_volume : \E c \in Cells : v_volume[b][c] # 0

-----------------------------------------------------------------------------
(* Claims: the tensor functions *)

IsCentre(ro) == ro[1] % 2 = 0 /\ ro[2] % 2 = 0

\* C11: in the scatter-projection every point projected exactly onto a pixel
\* centre gets weight 1, and the image of a single such point holds the point's
\* full value at that pixel and 0 at every other pixel.
C11_CentredPointLandsWhole ==
    f_op = "scatter" =>
        /\ \A i \in DOMAIN f_in.ro :
               IsCentre(f_in.ro[i]) => f_out.weight[i] = F(1)
        /\ (Len(f_in.ro) = 1 /\ IsCentre(f_in.ro[1])) =>
               \A px \in Pixels \X Pixels :
                   f_out.imgs[px] =
                       IF px = <<f_in.ro[1][1] \div 2, f_in.ro[1][2] \div 2>>
                       THEN F(f_in.values[1]) ELSE F(0)

\* C11 witness: a single point of non-zero value projected onto the centre of
\* the last pixel.
C11_Witness ==
    /\ f_op = "scatter"
    /\ Len(f_in.ro) = 1
    /\ f_in.ro[1] = <<2 * (XSize - 1), 2 * (XSize - 1)>>
    /\ f_in.values[1] # 0

GridOps == {"density_grid", "eval_volume", "eval_volume_het"}

C13_GuardedDivisionsAreFinite ==
    /\ f_op = "loss_mask" =>
           \A i \in DOMAIN f_in :
               f_out[i] = IF f_in[i] # 0 THEN F(1) ELSE F(0)
    /\ f_op = "correlation" =>
           /\ IsNum(f_out.coefficient)
           /\ IsNum(f_out.loss)
           /\ FAdd(f_out.loss, f_out.coefficient) = F(1)

\* C13 witness: the loss of two constant images, both of zero variance.
C13_Witness ==
    /\ f_op = "correlation"
    /\ \A i \in DOMAIN f_in.y_true : f_in.y_true[i] = 1 /\ f_in.y_pred[i] = 2
    /\ f_out.loss = F(1)

-----------------------------------------------------------------------------
(* Claims: reentrancy *)

\* the fields a step on the given indexes gathers for itself
OwnFields(indexes) ==
    [indexes |-> indexes,
     rot |-> Gather(AngleRot, indexes),
     tilt |-> Gather(AngleTilt, indexes),
     psi |-> Gather(AnglePsi, indexes),
     shifts |-> <<Gather(ShiftX, indexes), Gather(ShiftY, indexes)>>,
     ctf |-> [i \in DOMAIN indexes |-> [ctf_of |-> Defocus[indexes[i]]]]]

\* C14: a step that no step of the other thread overlaps runs its forward pass
\* on the fields gathered for its own indexes; a forward pass on fields
\* gathered for other indexes happens under overlap only (C14_Witness is such a
\* forward pass).
C14_SequentialStepsReadOwnFields ==
    \A t \in Threads :
        (c_pc[t] = "done" /\ ~c_overlap[t]) => c_read[t] = OwnFields(c_indexes[t])

\* C14 witness: two steps interleaved, and one ran its forward pass on the ctf,
\* pose and shift fields gathered for the indexes of the other.
C14_Witness ==
    \E t \in Threads :
        /\ c_pc[t] = "done"
        /\ c_overlap[t]
        /\ c_indexes[t] # c_indexes[Other(t)]
        /\ c_read[t] # OwnFields(c_indexes[t])
        /\ c_read[t] = OwnFields(c_indexes[Other(t)])

-----------------------------------------------------------------------------
(* Claims: the phases of a train step *)

Rank(phase) ==
    IF phase = "batch-prepared" THEN 1
    ELSE IF phase = "encoded" THEN 2
    ELSE IF phase = "decoded/scattered" THEN 3
    ELSE IF phase = "loss-computed" THEN 4
    ELSE 5

\* every phase at most once, in the fixed order
InFixedOrder(phases) ==
    \A i, j \in DOMAIN phases : i < j => Rank(phases[i]) < Rank(phases[j])

\* gradient application, if reached, is the last phase
AppliedLast(phases) ==
    \A i \in DOMAIN phases : phases[i] = "gradients-applied" => i = Len(phases)

IsPrefix(s, t) == Len(s) <= Len(t) /\ s = SubSeq(t, 1, Len(s))

MultiHeadPhases ==
    <<"batch-prepared", "encoded", "decoded/scattered">> \o CandidatesPhases(NCand)
        \o <<"gradients-applied">>

-----------------------------------------------------------------------------
(* Claims: the order of gradient computation and application *)

\* the optimizers of the apply_gradients calls of the running step, in order
AppliedOptimizers == [i \in DOMAIN m_applied |-> m_applied[i].optimizer]

HasGradients == DOMAIN m_grads # {}

\* C16: in the multi-head train_step the gradients the tape is asked for (those
\* of the encoder, and those of the decoder unless in pose-only mode) are taken
\* from one loss, computed with the weights of the start of the step, before
\* any weight is changed; the encoder update is applied before the decoder
\* update, so the decoder gradients that are applied were taken with respect
\* to the weights before the encoder update.
C16_GradientsBeforeUpdates ==
    m_kind = "train" =>
        /\ ~HasGradients => m_applied = <<>>
        /\ m_pc = "grads" =>
               /\ m_applied = <<>>
               /\ m_grads.encoder = <<m_w_enc, m_w_dec>>
        /\ (HasGradients /\ m_grads.decoder # <<>>) => m_grads.decoder = m_grads.encoder
        /\ AppliedOptimizers \in {<<>>, <<"e_optimizer">>, <<"e_optimizer", "d_optimizer">>}
        /\ (HasGradients /\ Len(m_applied) >= 1) =>
               m_grads.encoder[1] = m_w_enc - 1
        /\ (HasGradients /\ Len(m_applied) = 2) =>
               m_grads.decoder = <<m_w_enc - 1, m_w_dec - 1>>

\* C16 witness: a completed step that applied the encoder update and then the
\* decoder update, with gradients taken before both.
C16_Witness ==
    /\ m_kind = "train"
    /\ m_pc = "done"
    /\ ~only_pose
    /\ AppliedOptimizers = <<"e_optimizer", "d_optimizer">>
    /\ m_grads.decoder = <<m_w_enc - 1, m_w_dec - 1>>

-----------------------------------------------------------------------------
(* Claims: generator.ctf is written before it is used *)

\* the CTFs of the particles of a batch
CtfOfBatch(particles) == [i \in DOMAIN particles |-> [ctf_of |-> Defocus[particles[i]]]]

\* the particles of the images of the running step of the heterogeneity model
ParticlesOf(images) == [i \in DOMAIN images |-> images[i].particle]

\* C17: in every train, test and predict step, in eval_encoder and in the train
\* step of the multi-head model, the Wiener filter and the CTF filter of the
\* decoder find on the generator the CTFs written by this step for its batch:
\* neither runs before the step has written generator.ctf.
C17_CtfWrittenBeforeUse ==
    /\ \A i \in DOMAIN h_ctf_used : h_ctf_used[i].ctf = CtfOfBatch(ParticlesOf(h_images))
    /\ \A i \in DOMAIN m_batch.used : m_batch.used[i].ctf = CtfOfBatch(m_batch.indexes)
    /\ (h_pc \in {"filtered", "loss", "done"} /\ h_wiener) =>
           /\ h_ctf_used # <<>>
           /\ h_ctf_used[1].by = "wiener2DFilter"
    /\ (m_batch.pc \in {"filtered", "done"} /\ m_batch.applyCTF) =>
           /\ m_batch.used # <<>>
           /\ m_batch.used[1].by = "wiener2DFilter"

\* C17 witness: a step of a second batch has run its Wiener filter after a
\* step of another batch, in eval_encoder, or a multi-head train step has
\* applied the Wiener filter and the CTF filter.
C17_Witness ==
    \/ /\ h_kind = "eval_encoder"
       /\ h_pc = "done"
       /\ h_ctf_used # <<>>
       /\ g_indexes # <<>>
       /\ ParticlesOf(h_images) # g_indexes
    \/ /\ m_batch.pc = "done"
       /\ Len(m_batch.used) = 2

-----------------------------------------------------------------------------
(* Claims: what the evaluation of a volume leaves alone *)

\* the encoders of the two models
Encoders == {"encoder", "common_encoder", "head_encoder"}

\* C18: an evaluation of a volume (eval_volume of the multi-head AutoEncoder,
\* eval_volume_het of the heterogeneity AutoEncoder and of its Decoder) calls
\* no encoder, and none of its steps changes a learned weight, the state of an
\* optimizer or a loss tracker.
C18_VolumeEvaluationFrame ==
    [][/\ v_called' \cap Encoders = {}
       /\ UNCHANGED <<m_w_enc, m_w_dec, h_weights>>
       /\ UNCHANGED <<m_e_opt, m_d_opt, h_opt>>
       /\ UNCHANGED <<m_tracker, h_out>>
       /\ UNCHANGED <<m_phases, h_phases>>]_vars

\* C18 witness: an evaluation has returned a volume that is not empty, having
\* called the decoder of its model.
C18_Witness ==
    /\ v_pc = "done"
    /\ v_called \in {EvalVolumeNetworks, EvalVolumeHetNetworks}
    /\ \E b \in DOMAIN v_volume : \E c \in Cells : v_volume[b][c] > 0

-----------------------------------------------------------------------------
(* Claims: the regularisers of the multi-head loss *)

\* both blocks of the rows of every image of the batch have squared norm 1
AllUnit(rows) ==
    \A b \in DOMAIN rows :
        /\ SquaredNorm(SubSeq(rows[b], 1, 3)) = 1
        /\ SquaredNorm(SubSeq(rows[b], 4, 6)) = 1

\* C19 (as claimed): the unit-norm penalty of a candidate is 0 when both
\* 3-vector blocks of the rows have squared norm 1 for every image of the
\* batch, and larger than 0 when some block norm differs from 1, in particular
\* for the all-zero rows.
C19_UnitNormPenaltyZeroAtUnit ==
    f_op = "unit_norm" =>
        IF AllUnit(f_in) THEN f_out = F(0) ELSE FLess(F(0), f_out)

\* the term as claimed: 0.01 * sum(|r_i^2 * v_i|) / (N * sum(|v_i|))
ClaimedL1DistanceNorm(volume, coords) ==
    LET N == Len(volume)
        mass == SeqSum([i \in DOMAIN volume |-> Abs(volume[i])])
        dist == SeqSum([i \in DOMAIN volume |-> Abs(SquaredNorm(coords[i]) * volume[i])])
    IN FDiv(FMul(Q(1, 100), F(dist)), FMul(F(N), F(mass)))

\* C20 (as claimed): for a density of N voxels l1_distance_norm returns
\* 0.01 * sum(|r_i^2 * v_i|) / (N * sum(|v_i|)), r_i^2 the squared distance of
\* voxel i from the centre: the term is normalised by the voxel count N and by
\* the total absolute mass.
C20_NormalisedByVoxelCount ==
    f_op = "l1_distance_norm" =>
        \A b \in DOMAIN f_out :
            f_out[b] = ClaimedL1DistanceNorm(f_in.volumes[b], f_in.coords)

-----------------------------------------------------------------------------
(* Claims: the multi-resolution term and the blur filter bank *)

\* (loss_0 + loss_1 + ... + loss_L) / (L + 1)
AverageOfLevels(loss_0, levels, level_losses) ==
    FDiv(FAdd(F(loss_0), FSum(level_losses)), F(levels + 1))

IsMultires == f_op \in {"multires_het", "multires_mh"}

C24_FilterBankMatchesLevels ==
    (IsMultires /\ f_in.enabled) =>
        /\ Len(f_in.channels) = f_in.levels
        /\ f_out.error = "none"

-----------------------------------------------------------------------------
(* Claims: what the candidate loop of predict_step keeps *)

\* the candidates that have run
CandsRun == 1..p_idr

\* C22 (as claimed): after every iteration of the candidate loop of
\* predict_step, for every batch element, the kept rotation, the kept shift
\* and the kept image come from one and the same candidate, and the loss of
\* that candidate is the value prev_loss_rec holds for the element.
C22_KeptFromOneCandidate ==
    (p_pc \in {"loop", "done"} /\ p_idr >= 1) =>
        \A b \in Batch(p_B) :
            \E k \in CandsRun :
                /\ keep_r[b] = k
                /\ keep_shifts[b] = k
                /\ keep_imgs[b] = k
                /\ p_loss[k][b] = prev_loss_rec[b]

\* the candidates whose loss for batch element b is the least of those run
TiedAtMin(b) ==
    {k \in CandsRun : \A j \in CandsRun : p_loss[k][b] <= p_loss[j][b]}

Highest(S) == CHOOSE k \in S : \A j \in S : j <= k

\* C23 (as claimed): when several candidates have exactly the same minimum loss
\* for a batch element, predict_step returns the rotation, shift and image of
\* the candidate with the highest index among them.
C23_TieKeepsHighestIndex ==
    p_pc = "done" =>
        \A b \in Batch(p_B) :
            Cardinality(TiedAtMin(b)) > 1 =>
                /\ keep_r[b] = Highest(TiedAtMin(b))
                /\ keep_shifts[b] = Highest(TiedAtMin(b))
                /\ keep_imgs[b] = Highest(TiedAtMin(b))

-----------------------------------------------------------------------------
(* Claims: the uniform distribution penalty *)

\* C25 (as claimed): the loss decode_images_with_loss returns is a finite
\* number for every batch size >= 1, and the uniform distribution penalty of a
\* batch of one image is 0 and not NaN.
C25_LossFiniteForEveryBatchSize ==
    f_op = "uniform_dist" =>
        /\ f_out.loss.k = "num"
        /\ f_in.B = 1 => f_out.uniform_dist_loss = F(0)

-----------------------------------------------------------------------------
(* Claims: the pose corrections of a model built with refPose=False *)

IsZero(xs) == \A b \in DOMAIN xs : xs[b] = 0

\* C26 (as claimed): in a heterogeneity model built with refPose=False the
\* rotation and shift corrections are zero on every path: those the decoder is
\* called with in a train, test or predict("particles") step and those that
\* predict_step("het") and eval_encoder return.
C26_NoPoseCorrectionWithoutRefPose ==
    (~h_refPose /\ h_pose.to # "none") => (IsZero(h_pose.rows) /\ IsZero(h_pose.shifts))

-----------------------------------------------------------------------------
(* Claims: the density of a pose-only multi-head model *)

\* C27 (as claimed): in a multi-head model with only_pose = True the density
\* predict_step renders its candidates from is the density
\* decode_images_with_loss renders them from in training: the base values of
\* the generator, with zero delta.
C27_PoseOnlyDensityIsBaseValues ==
    (f_op = "density" /\ f_in.only_pose) =>
        /\ f_out.decode_images_with_loss = GenValues
        /\ f_out.predict_step = f_out.decode_images_with_loss

-----------------------------------------------------------------------------
(* Claims: the test step of the multi-head model *)

\* C28 (as claimed): a test step of the multi-head model completes for every
\* batch: once it is over it has computed the loss with
\* decode_images_with_loss, updated the rec_loss tracker exactly once, and
\* changed no weight and no optimizer state.
C28_TestStepCompletes ==
    (m_kind = "test" /\ MStepOver) =>
        /\ m_pc = "done"
        /\ m_phases = <<"batch-prepared">> \o DecodePhases
        /\ m_tracker = 1
        /\ m_applied = <<>>
        /\ <<m_e_opt, m_d_opt>> = m_start

-----------------------------------------------------------------------------
(* Claims: what a rejected predict step leaves behind *)

\* C29 (as claimed): no step of a predict call whose predict_mode predict_step
\* rejects writes a batch-scoped field: generator.indexes, current_images,
\* rot_batch, tilt_batch, psi_batch, shifts_batch, ctf and generator.CTF keep
\* the values they had before the call.
C29_RejectedModeWritesNothing ==
    [][(/\ h_kind = "predict"
        /\ h_kind' = "predict"
        /\ predict_mode' = predict_mode
        /\ PredictDispatch(predict_mode) = "ValueError") => UNCHANGED g_vars]_vars

-----------------------------------------------------------------------------
(* Claims: the total loss of the train and test steps *)

\* C30 (as claimed): for the same batch, the same weights and the same
\* configuration, train_step and test_step of the heterogeneity model compute
\* the same total loss.
C30_TrainAndTestTotalLossAgree ==
    f_op = "het_total" => f_out.train_step = f_out.test_step

=============================================================================
